---------------------------- MODULE Spec2Model ----------------------------
(***************************************************************************)
(* A model of the LightGBM feature extractor of the repository            *)
(* (src/lgbm_feature_extractor.py): the two index-building scans of       *)
(* preprocess(), the row extraction of extract_row(), and the sanitizing  *)
(* table emission at the end of run().                                    *)
(*                                                                         *)
(* Values.  A JSON scalar, and every cell of a feature row, is a record   *)
(*   [k, n, d, e, s]                                                       *)
(* k = "num"  : the finite number (n / d) / (1e-6)^e; d > 0, e \in {0,1}; *)
(*              e = 1 only arises from a division by the eps floor        *)
(* k = "nan" | "inf" | "ninf" : the float specials                        *)
(* k = "null" : None          k = "str" : the string s                    *)
(* Coordinates are integers in units of 1/60000 degree (CoordUnit) or     *)
(* None; lengths are integer millimetres, areas integer square            *)
(* centimetres.                                                            *)
(***************************************************************************)
EXTENDS Integers, Sequences, FiniteSets, TLC

Num(i) == [k |-> "num", n |-> i, d |-> 1, e |-> 0, s |-> ""]
Null == [k |-> "null", n |-> 0, d |-> 1, e |-> 0, s |-> ""]
NaN == [k |-> "nan", n |-> 0, d |-> 1, e |-> 0, s |-> ""]
Inf == [k |-> "inf", n |-> 0, d |-> 1, e |-> 0, s |-> ""]
NegInf == [k |-> "ninf", n |-> 0, d |-> 1, e |-> 0, s |-> ""]
Str(t) == [k |-> "str", n |-> 0, d |-> 1, e |-> 0, s |-> t]
Zero == Num(0)

\* None for a coordinate component (coordinates themselves are integers)
None == -1

IsNumber(c) == c.k = "num"

Abs(i) == IF i < 0 THEN -i ELSE i

RECURSIVE Gcd(_, _)
Gcd(a, b) == IF b = 0 THEN a ELSE Gcd(b, a % b)

\* the float quotient a / b of two integers, b > 0, as an exact fraction
Quot(a, b) ==
  LET g == Gcd(Abs(a), b)
  IN [k |-> "num", n |-> a \div g, d |-> b \div g, e |-> 0, s |-> ""]

\* the float quotient a / 1e-6
QuotEps(a) ==
  IF a = 0 THEN Zero ELSE [k |-> "num", n |-> a, d |-> 1, e |-> 1, s |-> ""]

RECURSIVE SqrtIter(_, _, _)
SqrtIter(n, lo, hi) ==
  IF lo >= hi THEN lo
  ELSE LET mid == (lo + hi + 1) \div 2
       IN IF mid * mid <= n THEN SqrtIter(n, mid, hi) ELSE SqrtIter(n, lo, mid - 1)

\* floor of the square root
ISqrt(n) == SqrtIter(n, 0, 46340)

RECURSIVE SumSeq(_)
SumSeq(q) == IF q = <<>> THEN 0 ELSE Head(q) + SumSeq(Tail(q))

\* millimetres of great circle per coordinate unit: R * pi / 180 / 60000
MmPerUnit == 1853
\* centimetres per coordinate unit of the planar projection: 111320 / 60000 m
CmPerUnit == 186

(***************************************************************************)
(* _parse_ts.  A raw timestamp is "" (absent, null or empty), "bad" (a    *)
(* string strptime rejects) or one of the well-formed stamps below.       *)
(***************************************************************************)
EpochOf(ts) ==
  CASE ts = "1969-12-31T23:59:00Z" -> -60
    [] ts = "1970-01-01T00:00:00Z" -> 0
    [] ts = "1970-01-01T00:01:40Z" -> 100
    [] ts = "1970-01-01T00:05:00Z" -> 300
    [] OTHER -> 0

WellFormedTs ==
  {"1969-12-31T23:59:00Z", "1970-01-01T00:00:00Z", "1970-01-01T00:01:40Z",
   "1970-01-01T00:05:00Z"}

parse_ts(ts_str) ==
  IF ts_str = "" THEN 0
  ELSE IF ts_str \in WellFormedTs THEN EpochOf(ts_str) ELSE 0

(***************************************************************************)
(* _haversine on integer coordinates.  The two points of a call lie       *)
(* within 0.5 degree of each other, where sin x = x holds for the half    *)
(* differences and atan2(sqrt a, sqrt(1 - a)) = sqrt a, to a relative     *)
(* error below 1e-5, so that R * c is R times the norm of                 *)
(* (dphi, sqrt(cos phi1 * cos phi2) * dlambda).  For two points within    *)
(* NearUnits of each other the norm is taken to a hundredth of a unit and *)
(* the result floored to millimetres; for points further apart the norm   *)
(* is taken to a unit.  The cosine is given in units of 1e-4 for the      *)
(* latitudes of the model: those within 0.01 degree of the equator, and   *)
(* 60 and 60.5 degrees.                                                    *)
(***************************************************************************)
Lat60 == 3600000

HalfDegree == 30000

NearUnits == 300

CosE4(lat) ==
  CASE lat = Lat60 -> 5000
    [] lat = Lat60 + HalfDegree -> 4924
    [] OTHER -> 10000

Norm(dphi, dlambda, coscos) ==
  IF Abs(dphi) <= NearUnits /\ Abs(dlambda) <= NearUnits
    THEN (MmPerUnit * ISqrt(dphi * dphi * 10000 + coscos * dlambda * dlambda)) \div 100
    ELSE MmPerUnit * ISqrt(dphi * dphi + coscos * ((dlambda * dlambda) \div 10000))

\* mutant: the cosine of the first latitude is taken twice
haversine_FirstCosineTwice(lat1, lon1, lat2, lon2) ==
  IF lat1 = None \/ lat2 = None \/ lon1 = None \/ lon2 = None THEN 0
  ELSE Norm(lat2 - lat1, lon2 - lon1, (CosE4(lat1) * CosE4(lat1)) \div 10000)

\* a coordinate component that is not a number (a string of the JSON
\* object), on which the arithmetic raises TypeError as it does on None
NotNumber == -2

\* the outcome of a computation that raised
Raised == -1

\* lines 65-71, the body of the try
Arithmetic(lat1, lon1, lat2, lon2) ==
  IF {lat1, lon1, lat2, lon2} \cap {None, NotNumber} # {} THEN Raised
  ELSE Norm(lat2 - lat1, lon2 - lon1, (CosE4(lat1) * CosE4(lat2)) \div 10000)

\* mutant: the exception reaches the caller
Except_Propagates(outcome) == outcome

\* lines 72-73: except: return 0.0
Except(outcome) == IF outcome = Raised THEN 0 ELSE outcome

\* _haversine of src/scripts/lgbm_feature_extractor.py, whose guard looks at
\* the two latitudes only
scripts_haversine(lat1, lon1, lat2, lon2) ==
  IF lat1 = None \/ lat2 = None THEN 0
  ELSE Except(Arithmetic(lat1, lon1, lat2, lon2))

haversine(lat1, lon1, lat2, lon2) ==
  IF lat1 = None \/ lat2 = None \/ lon1 = None \/ lon2 = None THEN 0
  ELSE Except(Arithmetic(lat1, lon1, lat2, lon2))

(***************************************************************************)
(* _calculate_way_metrics.  A raw node reference is a string; int(nid)    *)
(* succeeds on the decimal ones ("010" is the integer 10) and fails on    *)
(* the others, which are then looked up as they are.  A coordinate cache  *)
(* is a function from index keys (cells) to pairs <<lat, lon>>.           *)
(***************************************************************************)
IntRefs == {"10", "11", "12", "010"}

IntOf(nid) ==
  CASE nid = "10" -> 10
    [] nid = "11" -> 11
    [] nid = "12" -> 12
    [] nid = "010" -> 10
    [] OTHER -> 0

\* mutant: the reference is looked up without the int() coercion
CoerceRef_Raw(nid) == Str(nid)

\* lines 89-92: nid = int(nid), kept as it is when int() raises
CoerceRef(nid) == IF nid \in IntRefs THEN Num(IntOf(nid)) ELSE Str(nid)

\* lines 93-97: one reference resolves to at most one coordinate pair
ResolveRef(nid, coord_cache) ==
  LET key == CoerceRef(nid)
  IN IF key \in DOMAIN coord_cache
       THEN IF coord_cache[key][1] # None /\ coord_cache[key][2] # None
              THEN <<coord_cache[key]>>
              ELSE <<>>
       ELSE <<>>

RECURSIVE ResolveRefs(_, _)
ResolveRefs(refs, coord_cache) ==
  IF refs = <<>> THEN <<>>
  ELSE ResolveRef(Head(refs), coord_cache) \o ResolveRefs(Tail(refs), coord_cache)

\* mutant: closedness decided on the coerced references
IsClosed_Coerced(refs) == Len(refs) >= 3 /\ CoerceRef(refs[1]) = CoerceRef(refs[Len(refs)])

\* line 114
IsClosed(refs) == Len(refs) >= 3 /\ refs[1] = refs[Len(refs)]

\* mutant: the line is closed from its last point back to its first
PolylineLength_ClosesRing(coords) ==
  SumSeq([i \in 1..Len(coords) |->
            haversine(coords[i][1], coords[i][2],
                      coords[(i % Len(coords)) + 1][1], coords[(i % Len(coords)) + 1][2])])

\* lines 103-105
PolylineLength(coords) ==
  SumSeq([i \in 1..(Len(coords) - 1) |->
            haversine(coords[i][1], coords[i][2], coords[i + 1][1], coords[i + 1][2])])

\* lines 117-125: planar projection and shoelace sum, in square centimetres
ShoelaceArea(coords) ==
  LET m == Len(coords)
      x(i) == coords[i][2] * CmPerUnit
      y(i) == coords[i][1] * CmPerUnit
      nx(i) == (i % m) + 1
      sum1 == SumSeq([i \in 1..m |-> x(i) * y(nx(i))])
      sum2 == SumSeq([i \in 1..m |-> y(i) * x(nx(i))])
  IN Abs(sum1 - sum2) \div 2

\* lines 108-110: the mean of the resolved coordinates
Centroid(coords) ==
  <<SumSeq([i \in 1..Len(coords) |-> coords[i][1]]) \div Len(coords),
    SumSeq([i \in 1..Len(coords) |-> coords[i][2]]) \div Len(coords)>>

calculate_way_metrics(node_refs, coord_cache) ==
  LET coords == ResolveRefs(node_refs, coord_cache)
  IN IF Len(coords) < 2
       THEN [length_m |-> 0, area_m2 |-> 0, centroid |-> <<0, 0>>]
       ELSE [length_m |-> PolylineLength(coords),
             area_m2 |-> IF IsClosed(node_refs) /\ Len(coords) >= 3
                           THEN ShoelaceArea(coords) ELSE 0,
             centroid |-> Centroid(coords)]

(***************************************************************************)
(* Records.  One line of an input stream is a record                      *)
(*   [ok, obj_type, obj_id, version, action, timestamp, geom, tags,       *)
(*    node_refs, members, changeset_id, uid]                              *)
(* ok = FALSE is a line json.loads rejects (or one that is no JSON        *)
(* object); the other fields then carry no information.  A key that is    *)
(* absent from the JSON object is the cell Absent where the code gives    *)
(* d.get a default (version, uid) and Null where it does not.  obj_type   *)
(* and action are strings, "" when absent or null.  geom.has is "absent"  *)
(* (no key), "empty" (null or {}), "scalar" (a value that is true and no  *)
(* object, such as a string, on which .get raises AttributeError) or      *)
(* "map" (a non-empty object, whose lat                                    *)
(* and lon are integers or None).  tags is a function from tag keys to    *)
(* tag values (absent, null and {} are the empty function), node_refs a   *)
(* sequence of raw references and members a sequence of member objects.   *)
(***************************************************************************)
Absent == [k |-> "absent", n |-> 0, d |-> 1, e |-> 0, s |-> ""]

NoGeom == [has |-> "absent", lat |-> None, lon |-> None]
EmptyGeom == [has |-> "empty", lat |-> None, lon |-> None]
Geom(lat, lon) == [has |-> "map", lat |-> lat, lon |-> lon]
ScalarGeom == [has |-> "scalar", lat |-> None, lon |-> None]

\* lines 148-149 and 160-161: d["geom"].get raises on a node whose geom is
\* true and no object
GeomRaises(d) == d.obj_type = "node" /\ d.geom.has = "scalar"

NoTags == <<>>

BadLine ==
  [ok |-> FALSE, obj_type |-> "", obj_id |-> Null, version |-> Absent, action |-> "",
   timestamp |-> "", geom |-> NoGeom, tags |-> NoTags, node_refs |-> <<>>,
   members |-> <<>>, changeset_id |-> Null, uid |-> Absent]

\* d.get(key, default)
GetOr(cell, default) == IF cell.k = "absent" THEN default ELSE cell

\* mutant: the action is compared as it is written
Lower_AsWritten(a) == a

\* str.lower() of the action strings of the model
Lower(a) ==
  CASE a = "Create" -> "create"
    [] a = "MODIFY" -> "modify"
    [] OTHER -> a

\* line 181
ActionOf(curr) == Lower(curr.action)

\* line 182
VersionOf(curr) == GetOr(curr.version, Num(1))

\* version > 1 raises TypeError on None and on a string
VersionComparable(v) == v.k \in {"num", "inf", "ninf", "nan"}

VersionGt1(v) == (v.k = "num" /\ v.n > 1) \/ v.k = "inf"

VersionIs1(v) == v.k = "num" /\ v.n = 1

\* mutant: the index is looked up at the version of the record itself
VersionMinus1_SameVersion(v) == v

\* version - 1
VersionMinus1(v) == IF v.k = "num" THEN Num(v.n - 1) ELSE v

\* the key under which preprocess() files a prior record (line 146)
CacheKey(d) == <<d.obj_type, d.obj_id, GetOr(d.version, Null)>>

\* mutant: the index is consulted for every record
ConsultsPrev_Always(curr) == TRUE

\* line 186
ConsultsPrev(curr) == ActionOf(curr) # "create" /\ VersionGt1(VersionOf(curr))

\* mutant: when version - 1 is not in the index, another version of the
\* object is taken
FindPrev_AnyVersion(curr, prev_cache) ==
  IF ConsultsPrev(curr)
    THEN LET key == <<curr.obj_type, curr.obj_id, VersionMinus1(VersionOf(curr))>>
             others == {x \in DOMAIN prev_cache : x[1] = key[1] /\ x[2] = key[2]}
         IN IF key \in DOMAIN prev_cache THEN <<prev_cache[key]>>
            ELSE IF others # {} THEN <<prev_cache[CHOOSE x \in others : TRUE]>>
            ELSE <<>>
    ELSE <<>>

\* lines 185-187: <<prev>> when a predecessor is found, <<>> for None
FindPrev(curr, prev_cache) ==
  IF ConsultsPrev(curr)
    THEN LET key == <<curr.obj_type, curr.obj_id, VersionMinus1(VersionOf(curr))>>
         IN IF key \in DOMAIN prev_cache THEN <<prev_cache[key]>> ELSE <<>>
    ELSE <<>>

\* line 199
TypeCode(obj_type) ==
  CASE obj_type = "node" -> 0
    [] obj_type = "way" -> 1
    [] obj_type = "relation" -> 2
    [] OTHER -> -1

\* line 208
CreatedTime(version, curr_ts) == IF VersionIs1(version) THEN curr_ts ELSE 0

\* line 214
PrevTags(prev) == IF prev # <<>> THEN prev[1].tags ELSE NoTags

\* mutant: every key of the current tags counts as added
TagAddCount_EveryKey(c_tags, p_tags) == Cardinality(DOMAIN c_tags)

\* lines 219-221
TagAddCount(c_tags, p_tags) == Cardinality(DOMAIN c_tags \ DOMAIN p_tags)

TagRemoveCount(c_tags, p_tags) == Cardinality(DOMAIN p_tags \ DOMAIN c_tags)

TagModifyCount(c_tags, p_tags) ==
  Cardinality({key \in DOMAIN c_tags \cap DOMAIN p_tags : c_tags[key] # p_tags[key]})

\* tags.get("name"): {} for None
TagGet(tags, key) == IF key \in DOMAIN tags THEN {tags[key]} ELSE {}

\* line 222
NameChanged(c_tags, p_tags) ==
  IF TagGet(c_tags, "name") # TagGet(p_tags, "name") THEN 1 ELSE 0

\* lines 234-236 and 240-242: node_refs, or members when node_refs is empty
UsesMembers(d) == d.node_refs = <<>> /\ d.members # <<>>

RefCount(d) == IF d.node_refs # <<>> THEN Len(d.node_refs) ELSE Len(d.members)

\* mutant: only node_refs are counted, members are not
NodeCountChange_NodeRefsOnly(curr, prev) ==
  Len(curr.node_refs) - (IF prev # <<>> THEN Len(prev[1].node_refs) ELSE 0)

\* lines 238-244
NodeCountChange(curr, prev) ==
  RefCount(curr) - (IF prev # <<>> THEN RefCount(prev[1]) ELSE 0)

\* mutant: a node without a predecessor is measured from (0, 0)
NodeCentroidShift_NoPrevGuard(curr, prev) ==
  IF curr.geom.has = "map"
    THEN IF prev # <<>> /\ prev[1].geom.has = "map"
           THEN haversine(curr.geom.lat, curr.geom.lon, prev[1].geom.lat, prev[1].geom.lon)
           ELSE haversine(curr.geom.lat, curr.geom.lon, 0, 0)
    ELSE 0

\* lines 246-251
NodeCentroidShift(curr, prev) ==
  IF prev # <<>> /\ curr.geom.has = "map" /\ prev[1].geom.has = "map"
    THEN haversine(curr.geom.lat, curr.geom.lon, prev[1].geom.lat, prev[1].geom.lon)
    ELSE 0

\* mutant: the change is divided by the current value
ChangeRatio_CurrDenominator(c, p) == IF c > 0 THEN Quot(c - p, c) ELSE QuotEps(c - p)

\* lines 259-261: (c - p) / max(p, eps); a positive p of the model exceeds eps
ChangeRatio(c, p) == IF p > 0 THEN Quot(c - p, p) ELSE QuotEps(c - p)

\* mutant: the shift is taken whatever the previous length is
WayCentroidShift_Unguarded(c, p) ==
  haversine(c.centroid[1], c.centroid[2], p.centroid[1], p.centroid[2])

\* lines 263-264
WayCentroidShift(c, p) ==
  IF p.length_m > 0
    THEN haversine(c.centroid[1], c.centroid[2], p.centroid[1], p.centroid[2])
    ELSE 0

\* Counter.get(key, 0) and dict.get(key, ...); json.loads returns one and
\* the same float object for every NaN it reads, which a dictionary finds
\* by identity, so a NaN key is a key like any other
HasKey(f, key) == key \in DOMAIN f

CounterGet(f, key) == IF HasKey(f, key) THEN f[key] ELSE 0

\* mutant: the lookup is a subscript of a defaultdict, which files the
\* default under a key it does not hold
AfterGet_Subscript(f, key, default) ==
  IF HasKey(f, key) THEN f ELSE [x \in DOMAIN f \cup {key} |-> IF x = key THEN default ELSE f[x]]

\* lines 187 and 272-274: the dictionary after f.get(key, default)
AfterGet(f, key, default) == f

\* mutant: the difference is taken whenever a predecessor is found
TimeGapPrev_Unguarded(curr_ts, prev) ==
  IF prev # <<>> THEN curr_ts - parse_ts(prev[1].timestamp) ELSE 0

\* lines 277-278
TimeGapPrev(curr_ts, prev) ==
  LET prev_ts == IF prev # <<>> THEN parse_ts(prev[1].timestamp) ELSE 0
  IN IF prev_ts > 0 THEN curr_ts - prev_ts ELSE 0

(***************************************************************************)
(* extract_row.  The indices are passed as one record idx with the fields *)
(* prev_cache, coords_curr, coords_prev_fallback, stats_cs_size,          *)
(* stats_user_edit and stats_user_div.                                    *)
(***************************************************************************)
\* The exceptions extract_row raises on the records of the model: the
\* comparison version > 1 on None or a string (line 186), a member
\* object used as a dictionary key (line 93) when a way has members and no
\* node_refs, and .get on a geom that is no object (lines 247-250), which
\* is reached when a predecessor is found and both geoms are true.
ExtractRaises(curr, idx) ==
  \/ ActionOf(curr) # "create" /\ ~VersionComparable(VersionOf(curr))
  \/ /\ curr.obj_type = "node"
     /\ LET prev == FindPrev(curr, idx.prev_cache)
        IN /\ prev # <<>>
           /\ curr.geom.has \in {"map", "scalar"}
           /\ prev[1].geom.has \in {"map", "scalar"}
           /\ "scalar" \in {curr.geom.has, prev[1].geom.has}
  \/ /\ curr.obj_type = "way"
     /\ \/ UsesMembers(curr)
        \/ LET prev == FindPrev(curr, idx.prev_cache)
           IN prev # <<>> /\ UsesMembers(prev[1])

extract_row(curr, idx) ==
  LET action == ActionOf(curr)
      version == VersionOf(curr)
      prev == FindPrev(curr, idx.prev_cache)
      curr_ts == parse_ts(curr.timestamp)
      c_tags == curr.tags
      p_tags == PrevTags(prev)
      is_way == curr.obj_type = "way"
      c == calculate_way_metrics(curr.node_refs, idx.coords_curr)
      p == calculate_way_metrics(prev[1].node_refs, idx.coords_prev_fallback)
      uid == GetOr(curr.uid, Num(0))
  IN [changeset_id |-> curr.changeset_id,
      obj_id |-> curr.obj_id,
      object_type |-> Num(TypeCode(curr.obj_type)),
      version_count |-> version,
      is_delete |-> Num(IF action = "delete" THEN 1 ELSE 0),
      is_create |-> Num(IF action = "create" THEN 1 ELSE 0),
      is_modify |-> Num(IF action = "modify" THEN 1 ELSE 0),
      last_modified_time |-> Num(curr_ts),
      created_time |-> Num(CreatedTime(version, curr_ts)),
      tag_count |-> Num(Cardinality(DOMAIN c_tags)),
      tag_add_count |-> Num(TagAddCount(c_tags, p_tags)),
      tag_remove_count |-> Num(TagRemoveCount(c_tags, p_tags)),
      tag_modify_count |-> Num(TagModifyCount(c_tags, p_tags)),
      name_changed |-> Num(NameChanged(c_tags, p_tags)),
      length_change_ratio |->
        IF is_way /\ prev # <<>> THEN ChangeRatio(c.length_m, p.length_m) ELSE Zero,
      area_change_ratio |->
        IF is_way /\ prev # <<>> THEN ChangeRatio(c.area_m2, p.area_m2) ELSE Zero,
      node_count_change |-> Num(NodeCountChange(curr, prev)),
      centroid_shift |->
        IF curr.obj_type = "node" THEN Num(NodeCentroidShift(curr, prev))
        ELSE IF is_way /\ prev # <<>> THEN Num(WayCentroidShift(c, p))
        ELSE Zero,
      changeset_size |-> Num(CounterGet(idx.stats_cs_size, curr.changeset_id)),
      user_edit_count |-> Num(CounterGet(idx.stats_user_edit, uid)),
      user_object_diversity |->
        Num(IF HasKey(idx.stats_user_div, uid)
              THEN Cardinality(idx.stats_user_div[uid]) ELSE 0),
      time_gap_prev |-> Num(TimeGapPrev(curr_ts, prev))]

(***************************************************************************)
(* The sanitizer of run() (lines 302-334).                                *)
(***************************************************************************)
\* lines 304-321
cols ==
  {"changeset_id", "obj_id", "object_type", "version_count", "is_delete",
   "is_create", "is_modify", "last_modified_time", "created_time", "tag_count",
   "tag_add_count", "tag_remove_count", "tag_modify_count", "name_changed",
   "length_change_ratio", "area_change_ratio", "node_count_change",
   "centroid_shift", "changeset_size", "user_edit_count",
   "user_object_diversity", "time_gap_prev"}

\* the strings of the model that pandas parses as a number
NumericStrings == {"12", "010", "10", "11"}

ParseNumeric(t) ==
  CASE t = "12" -> 12
    [] t = "010" -> 10
    [] t = "10" -> 10
    [] t = "11" -> 11
    [] OTHER -> 0

\* line 330: pd.to_numeric(errors="coerce") on one cell
ToNumeric(cell) ==
  CASE cell.k \in {"num", "nan", "inf", "ninf"} -> cell
    [] cell.k = "str" ->
         IF cell.s \in NumericStrings THEN Num(ParseNumeric(cell.s)) ELSE NaN
    [] OTHER -> NaN

\* mutant: fillna(0) is left out
FillNa_Omitted(cell) == cell

\* line 331
FillNa(cell) == IF cell.k = "nan" THEN Zero ELSE cell

\* mutant: only +inf is replaced
ReplaceInf_PositiveOnly(cell) == IF cell.k = "inf" THEN Zero ELSE cell

\* mutant: a quotient by the 1e-6 floor is replaced as an infinity is
ReplaceInf_LargeValuesToo(cell) ==
  IF cell.k \in {"inf", "ninf"} \/ (cell.k = "num" /\ cell.e > 0) THEN Zero ELSE cell

\* line 334
ReplaceInf(cell) == IF cell.k \in {"inf", "ninf"} THEN Zero ELSE cell

SanitizeCell(cell) == ReplaceInf(FillNa(ToNumeric(cell)))

\* line 302: pd.DataFrame(results) holds NaN where a row mapping lacks a
\* column that another row has
FrameCell(row, c) == IF c \in DOMAIN row THEN row[c] ELSE NaN

\* line 325
ColumnMissing(rows, c) == \A r \in 1..Len(rows) : c \notin DOMAIN rows[r]

\* lines 324-334, the cell of row r in column c
SanitizedCell(rows, r, c) ==
  IF ColumnMissing(rows, c) THEN Zero ELSE SanitizeCell(FrameCell(rows[r], c))

Sanitize(rows) ==
  [r \in 1..Len(rows) |-> [c \in cols |-> SanitizedCell(rows, r, c)]]

(***************************************************************************)
(* The state of one run.                                                   *)
(***************************************************************************)
VARIABLES
  input_prev,            \* the lines of object_versions.jsonl
  input_curr,            \* the lines of objects.jsonl
  prev_exists,           \* os.path.exists(self.input_prev)
  curr_exists,           \* os.path.exists(self.input_curr)
  pc,                    \* where run() is
  pos,                   \* the line the current loop is at
  prev_cache,            \* (obj_type, obj_id, version) -> prior record
  coords_prev,           \* node id -> <<lat, lon>>, from the prior stream
  coords_curr,           \* node id -> <<lat, lon>>, from the current stream
  coords_prev_fallback,  \* coords_curr overwritten by coords_prev
  stats_cs_size,         \* changeset id -> number of records
  stats_user_edit,       \* uid -> number of records
  stats_user_div,        \* uid -> set of object types
  results,               \* the rows extract_row returned, in stream order
  table,                 \* the rows of lgbm_features.csv, <<>> until written
  arg,                   \* the argument of a function applied on its own
  ret,                   \* and its result
  queue_file,            \* fetch_prev_queue.csv
  processed_changesets,  \* processed_changesets.txt
  processed_versions,    \* processed_versions.txt
  local                  \* the locals of the latest call of a crawler

vars ==
  <<input_prev, input_curr, prev_exists, curr_exists, pc, pos, prev_cache,
    coords_prev, coords_curr, coords_prev_fallback, stats_cs_size,
    stats_user_edit, stats_user_div, results, table, arg, ret, queue_file,
    processed_changesets, processed_versions, local>>

\* what the crawlers keep next to the two streams; the extractor reads
\* none of it
crawler == <<queue_file, processed_changesets, processed_versions, local>>

\* a file that does not exist, and a file of lines
NoFile == [exists |-> FALSE, lines |-> <<>>]
File(lines) == [exists |-> TRUE, lines |-> lines]

\* the locals of a crawler before its first call
NoCall ==
  [runs |-> 0, overwrite |-> FALSE, changeset_ids |-> <<>>, processed |-> {},
   requests |-> <<>>]

NoCrawl ==
  /\ queue_file = NoFile
  /\ processed_changesets = NoFile
  /\ processed_versions = NoFile
  /\ local = NoCall

inputs == <<input_prev, input_curr, prev_exists, curr_exists>>

indices ==
  <<prev_cache, coords_prev, coords_curr, coords_prev_fallback, stats_cs_size,
    stats_user_edit, stats_user_div>>

\* the indices as extract_row reads them
Idx ==
  [prev_cache |-> prev_cache, coords_curr |-> coords_curr,
   coords_prev_fallback |-> coords_prev_fallback, stats_cs_size |-> stats_cs_size,
   stats_user_edit |-> stats_user_edit, stats_user_div |-> stats_user_div]

EmptyMap == <<>>

\* d[key] = value
Put(f, key, value) ==
  [x \in DOMAIN f \cup {key} |-> IF x = key THEN value ELSE f[x]]

\* mutant: an entry the dictionary holds is kept
Update_KeepsOwn(f, g) ==
  [x \in DOMAIN f \cup DOMAIN g |-> IF x \in DOMAIN f THEN f[x] ELSE g[x]]

\* dict.update
Update(f, g) ==
  [x \in DOMAIN f \cup DOMAIN g |-> IF x \in DOMAIN g THEN g[x] ELSE f[x]]

\* mutant: the truthiness test of d["geom"] is left out
HasCoords_AnyGeom(d) == d.obj_type = "node" /\ d.geom.has # "absent"

\* lines 148 and 160
HasCoords(d) == d.obj_type = "node" /\ d.geom.has = "map"

SeqsUpTo(S, n) == UNION {[1..m -> S] : m \in 0..n}

\* __init__ (lines 21-44), for the two input files as they are found
InitRun(CurrLines, PrevLines, maxCurr, maxPrev) ==
  /\ prev_exists \in BOOLEAN
  /\ curr_exists \in BOOLEAN
  /\ input_prev \in IF prev_exists THEN SeqsUpTo(PrevLines, maxPrev) ELSE {<<>>}
  /\ input_curr \in IF curr_exists THEN SeqsUpTo(CurrLines, maxCurr) ELSE {<<>>}
  /\ pc = "prev_scan"
  /\ pos = 1
  /\ prev_cache = EmptyMap
  /\ coords_prev = EmptyMap
  /\ coords_curr = EmptyMap
  /\ coords_prev_fallback = EmptyMap
  /\ stats_cs_size = EmptyMap
  /\ stats_user_edit = EmptyMap
  /\ stats_user_div = EmptyMap
  /\ results = <<>>
  /\ table = <<>>
  /\ arg = <<>>
  /\ ret = <<>>
  /\ NoCrawl

\* lines 143-151: one line of the prior stream
PrevScanLine ==
  /\ pc = "prev_scan"
  /\ prev_exists
  /\ pos <= Len(input_prev)
  /\ LET d == input_prev[pos]
     IN IF d.ok
          THEN /\ prev_cache' = Put(prev_cache, CacheKey(d), d)
               /\ coords_prev' =
                    IF HasCoords(d)
                      THEN Put(coords_prev, d.obj_id, <<d.geom.lat, d.geom.lon>>)
                      ELSE coords_prev
          ELSE UNCHANGED <<prev_cache, coords_prev>>
  /\ pos' = pos + 1
  /\ UNCHANGED <<inputs, crawler, pc, coords_curr, coords_prev_fallback, stats_cs_size,
                 stats_user_edit, stats_user_div, results, table, arg, ret>>

\* lines 141-143: the prior stream is absent or exhausted
PrevScanEnd ==
  /\ pc = "prev_scan"
  /\ ~prev_exists \/ pos > Len(input_prev)
  /\ pc' = "curr_scan"
  /\ pos' = 1
  /\ UNCHANGED <<inputs, crawler, indices, results, table, arg, ret>>

\* mutant: a line json.loads rejects ends the scan of the current stream
CurrScanLine_BreakOnMalformed ==
  /\ pc = "curr_scan"
  /\ curr_exists
  /\ pos <= Len(input_curr)
  /\ LET d == input_curr[pos]
         uid == GetOr(d.uid, Num(0))
     IN IF d.ok
          THEN /\ coords_curr' =
                    IF HasCoords(d)
                      THEN Put(coords_curr, d.obj_id, <<d.geom.lat, d.geom.lon>>)
                      ELSE coords_curr
               /\ stats_cs_size' =
                    Put(stats_cs_size, d.changeset_id, CounterGet(stats_cs_size, d.changeset_id) + 1)
               /\ stats_user_edit' = Put(stats_user_edit, uid, CounterGet(stats_user_edit, uid) + 1)
               /\ stats_user_div' =
                    Put(stats_user_div, uid,
                        (IF uid \in DOMAIN stats_user_div
                           THEN stats_user_div[uid] ELSE {}) \cup {d.obj_type})
               /\ pos' = pos + 1
          ELSE /\ UNCHANGED <<coords_curr, stats_cs_size, stats_user_edit, stats_user_div>>
               /\ pos' = Len(input_curr) + 1
  /\ UNCHANGED <<inputs, crawler, pc, prev_cache, coords_prev, coords_prev_fallback,
                 results, table, arg, ret>>

\* lines 156-168: one line of the current stream; the line is skipped
\* when json.loads raises and when line 161 does, which comes before the
\* statistics
CurrScanLine ==
  /\ pc = "curr_scan"
  /\ curr_exists
  /\ pos <= Len(input_curr)
  /\ LET d == input_curr[pos]
         uid == GetOr(d.uid, Num(0))
     IN IF d.ok /\ ~GeomRaises(d)
          THEN /\ coords_curr' =
                    IF HasCoords(d)
                      THEN Put(coords_curr, d.obj_id, <<d.geom.lat, d.geom.lon>>)
                      ELSE coords_curr
               /\ stats_cs_size' =
                    Put(stats_cs_size, d.changeset_id,
                        (IF d.changeset_id \in DOMAIN stats_cs_size
                           THEN stats_cs_size[d.changeset_id] ELSE 0) + 1)
               /\ stats_user_edit' =
                    Put(stats_user_edit, uid,
                        (IF uid \in DOMAIN stats_user_edit
                           THEN stats_user_edit[uid] ELSE 0) + 1)
               /\ stats_user_div' =
                    Put(stats_user_div, uid,
                        (IF uid \in DOMAIN stats_user_div
                           THEN stats_user_div[uid] ELSE {}) \cup {d.obj_type})
          ELSE UNCHANGED <<coords_curr, stats_cs_size, stats_user_edit, stats_user_div>>
  /\ pos' = pos + 1
  /\ UNCHANGED <<inputs, crawler, pc, prev_cache, coords_prev, coords_prev_fallback,
                 results, table, arg, ret>>

\* mutant: the scan of the current stream may end before its last line
CurrScanEnd_BeforeLastLine ==
  /\ pc = "curr_scan"
  /\ coords_prev_fallback' = Update(coords_curr, coords_prev)
  /\ pc' = "extract"
  /\ pos' = 1
  /\ UNCHANGED <<inputs, crawler, prev_cache, coords_prev, coords_curr, stats_cs_size,
                 stats_user_edit, stats_user_div, results, table, arg, ret>>

\* lines 170-173: the current stream is absent or exhausted; the fallback
\* index is built and preprocess() returns
CurrScanEnd ==
  /\ pc = "curr_scan"
  /\ ~curr_exists \/ pos > Len(input_curr)
  /\ coords_prev_fallback' = Update(coords_curr, coords_prev)
  /\ pc' = "extract"
  /\ pos' = 1
  /\ UNCHANGED <<inputs, crawler, prev_cache, coords_prev, coords_curr, stats_cs_size,
                 stats_user_edit, stats_user_div, results, table, arg, ret>>

\* mutant: without the current stream an empty table is written
RunAbort_WritesEmptyTable ==
  /\ pc = "extract"
  /\ ~curr_exists
  /\ table' = Sanitize(results)
  /\ pc' = "done"
  /\ UNCHANGED <<inputs, crawler, pos, indices, results, arg, ret>>

\* lines 290-292
RunAbort ==
  /\ pc = "extract"
  /\ ~curr_exists
  /\ pc' = "aborted"
  /\ UNCHANGED <<inputs, crawler, pos, indices, results, table, arg, ret>>

\* mutant: a record on which extract_row raises gets a row of its
\* identifiers
ExtractLine_DefaultRow ==
  /\ pc = "extract"
  /\ curr_exists
  /\ pos <= Len(input_curr)
  /\ LET curr == input_curr[pos]
     IN results' =
          IF ~curr.ok THEN results
          ELSE IF ExtractRaises(curr, Idx)
            THEN Append(results, [changeset_id |-> curr.changeset_id, obj_id |-> curr.obj_id])
          ELSE Append(results, extract_row(curr, Idx))
  /\ pos' = pos + 1
  /\ UNCHANGED <<inputs, crawler, pc, indices, table, arg, ret>>

\* lines 295-300: one line of the current stream, its row appended unless
\* json.loads or extract_row raises; the dictionaries are left as the
\* lookups of extract_row leave them (the lookup of line 187 is reached
\* when line 186 does not raise, those of lines 272-274 when nothing does)
ExtractLine ==
  /\ pc = "extract"
  /\ curr_exists
  /\ pos <= Len(input_curr)
  /\ LET curr == input_curr[pos]
         returns == curr.ok /\ ~ExtractRaises(curr, Idx)
         looks_up == curr.ok /\ VersionComparable(VersionOf(curr)) /\ ConsultsPrev(curr)
         uid == GetOr(curr.uid, Num(0))
     IN /\ results' = IF returns THEN Append(results, extract_row(curr, Idx)) ELSE results
        /\ prev_cache' =
             IF looks_up
               THEN AfterGet(prev_cache,
                             <<curr.obj_type, curr.obj_id, VersionMinus1(VersionOf(curr))>>,
                             Null)
               ELSE prev_cache
        /\ stats_cs_size' =
             IF returns THEN AfterGet(stats_cs_size, curr.changeset_id, 0) ELSE stats_cs_size
        /\ stats_user_edit' =
             IF returns THEN AfterGet(stats_user_edit, uid, 0) ELSE stats_user_edit
        /\ stats_user_div' =
             IF returns THEN AfterGet(stats_user_div, uid, {}) ELSE stats_user_div
  /\ pos' = pos + 1
  /\ UNCHANGED <<inputs, crawler, pc, coords_prev, coords_curr, coords_prev_fallback, table, arg, ret>>

\* lines 302-336: the frame is sanitized and written
Emit ==
  /\ pc = "extract"
  /\ curr_exists
  /\ pos > Len(input_curr)
  /\ table' = Sanitize(results)
  /\ pc' = "done"
  /\ UNCHANGED <<inputs, crawler, pos, indices, results, arg, ret>>

Next ==
  \/ PrevScanLine
  \/ PrevScanEnd
  \/ CurrScanLine
  \/ CurrScanEnd
  \/ RunAbort
  \/ ExtractLine
  \/ Emit

(***************************************************************************)
(* The input streams the runs are checked on.                              *)
(***************************************************************************)
MaxCurr == 2
MaxPrev == 1

Rec(t, id, ver, act, ts, geom, tags, node_refs, members) ==
  [ok |-> TRUE, obj_type |-> t, obj_id |-> Num(id), version |-> ver, action |-> act,
   timestamp |-> ts, geom |-> geom, tags |-> tags, node_refs |-> node_refs,
   members |-> members, changeset_id |-> Num(5), uid |-> Num(7)]

Member(ref) == [type |-> "node", ref |-> ref, role |-> ""]

TagsA == [key \in {"name"} |-> "a"]
TagsB == [key \in {"name", "k"} |-> IF key = "name" THEN "b" ELSE "a"]
TagsC == [key \in {"k"} |-> "b"]

Ts100 == "1970-01-01T00:01:40Z"
Ts300 == "1970-01-01T00:05:00Z"

\* records of every type, created, modified and deleted, with and without
\* geometry, tags and references
CurrLines ==
  { Rec("node", 1, Num(1), "create", Ts100, Geom(0, 0), TagsA, <<>>, <<>>),
    Rec("node", 1, Num(2), "modify", Ts300, Geom(0, 60), TagsB, <<>>, <<>>),
    Rec("node", 1, Num(2), "delete", "", NoGeom, NoTags, <<>>, <<>>),
    Rec("way", 1, Num(1), "Create", Ts100, NoGeom, TagsC, <<"10", "11">>, <<>>),
    Rec("way", 1, Num(2), "modify", "bad", NoGeom, TagsB, <<"10", "11", "12">>, <<>>),
    Rec("relation", 1, Num(2), "MODIFY", Ts300, NoGeom, NoTags, <<>>, <<Member("10")>>),
    Rec("relation", 1, Absent, "", Ts100, NoGeom, TagsA, <<>>,
        <<Member("10"), Member("11")>>),
    Rec("way", 1, Null, "modify", Ts100, NoGeom, NoTags, <<"10">>, <<>>),
    Rec("way", 1, Num(3), "delete", Ts300, NoGeom, TagsA, <<>>, <<Member("10")>>),
    BadLine }

PrevLines ==
  { Rec("node", 1, Num(1), "", Ts100, Geom(0, 0), TagsA, <<>>, <<>>),
    Rec("node", 1, Num(0), "", Ts300, Geom(60, 60), TagsC, <<>>, <<>>),
    Rec("way", 1, Num(1), "", Ts300, NoGeom, TagsA, <<"10">>, <<>>),
    Rec("relation", 1, Num(1), "", "", NoGeom, TagsC, <<>>,
        <<Member("10"), Member("11")>>),
    Rec("way", 1, Num(0), "", Ts100, NoGeom, TagsB, <<"10", "11">>, <<>>),
    BadLine }

\* records whose identifiers, version and uid are not what the crawlers write
RawRec(t, id, ver, act, cs, uid) ==
  [ok |-> TRUE, obj_type |-> t, obj_id |-> id, version |-> ver, action |-> act,
   timestamp |-> Ts100, geom |-> NoGeom, tags |-> TagsA, node_refs |-> <<>>,
   members |-> <<>>, changeset_id |-> cs, uid |-> uid]

RawLines ==
  { RawRec("node", Num(1), Num(1), "create", Inf, Num(7)),
    [RawRec("node", Str("x"), Null, "create", NaN, Absent)
       EXCEPT !.geom = ScalarGeom],
    RawRec("way", Null, Absent, "", Str("12"), Null),
    RawRec("relation", Str("10"), Num(2), "delete", NegInf, Num(7)),
    RawRec("", Num(1), Str("2"), "modify", Null, Num(8)),
    RawRec("node", Num(1), Str("2"), "create", Str("abc"), Absent) }

Init == InitRun(CurrLines, PrevLines, MaxCurr, MaxPrev)

Spec == Init /\ [][Next]_vars

InitRaw == InitRun(RawLines, PrevLines, MaxCurr, MaxPrev)

SpecRaw == InitRaw /\ [][Next]_vars

\* Ways over the nodes 10, 11 and 12, whose coordinates come from node
\* records of either stream; 60 units are 0.001 degree.
GeoMaxCurr == 3
GeoMaxPrev == 2

NodeRec(id, geom) == Rec("node", id, Num(1), "create", Ts100, geom, NoTags, <<>>, <<>>)

WayRec(ver, act, node_refs) ==
  Rec("way", 1, Num(ver), act, Ts300, NoGeom, NoTags, node_refs, <<>>)

GeoCurrLines ==
  { NodeRec(10, Geom(0, 0)),
    NodeRec(11, Geom(0, 60)),
    NodeRec(11, Geom(60, None)),
    WayRec(2, "modify", <<"10", "11">>) }

GeoPrevLines ==
  { NodeRec(10, Geom(0, 0)),
    NodeRec(11, EmptyGeom),
    WayRec(1, "", <<"10">>),
    WayRec(1, "", <<"10", "11">>) }

InitGeo == InitRun(GeoCurrLines, GeoPrevLines, GeoMaxCurr, GeoMaxPrev)

SpecGeo == InitGeo /\ [][Next]_vars

\* A way modified at version 2 whose version 1 has a length, has two
\* references to one node, or has a single reference.
ShiftCurr ==
  { NodeRec(10, Geom(0, 0)),
    NodeRec(11, Geom(0, 60)),
    WayRec(2, "modify", <<"10", "11">>) }

ShiftPrev ==
  { NodeRec(10, Geom(60, 0)),
    WayRec(1, "", <<"10", "10">>),
    WayRec(1, "", <<"10", "11">>),
    WayRec(1, "", <<"11">>) }

InitShift == InitRun(ShiftCurr, ShiftPrev, GeoMaxCurr, GeoMaxPrev)

SpecShift == InitShift /\ [][Next]_vars

\* Records the scan of the current stream skips, nodes whose geom is a
\* string, next to records it counts.
CountedCurr ==
  { Rec("node", 1, Num(1), "create", Ts100, Geom(0, 0), TagsA, <<>>, <<>>),
    Rec("node", 2, Num(1), "create", Ts100, ScalarGeom, TagsA, <<>>, <<>>),
    Rec("node", 1, Num(2), "modify", Ts300, ScalarGeom, TagsA, <<>>, <<>>),
    [Rec("way", 1, Num(1), "create", Ts100, NoGeom, NoTags, <<>>, <<>>)
       EXCEPT !.changeset_id = NaN] }

CountedPrev ==
  { Rec("node", 1, Num(1), "", Ts100, Geom(0, 0), TagsA, <<>>, <<>>),
    Rec("node", 1, Num(1), "", Ts100, ScalarGeom, TagsA, <<>>, <<>>),
    Rec("node", 1, Num(1), "", Ts100, NoGeom, TagsA, <<>>, <<>>) }

InitCounted == InitRun(CountedCurr, CountedPrev, MaxCurr, MaxPrev)

SpecCounted == InitCounted /\ [][Next]_vars

\* A node modified at version 2, and its version 1 under every kind of
\* timestamp: absent, rejected by strptime, before, at and after the epoch.
StampedNode(ver, act, ts) == Rec("node", 1, Num(ver), act, ts, NoGeom, NoTags, <<>>, <<>>)

GapCurr ==
  { StampedNode(2, "modify", Ts300),
    StampedNode(2, "modify", Ts100),
    StampedNode(2, "delete", "bad"),
    StampedNode(3, "modify", Ts300) }

GapPrev ==
  {StampedNode(1, "", ts) : ts \in WellFormedTs \cup {"", "bad"}}

InitGap == InitRun(GapCurr, GapPrev, MaxCurr, MaxPrev)

SpecGap == InitGap /\ [][Next]_vars

\* Streams with malformed lines, records on which extract_row raises, two
\* changesets and two authors.
LinesMaxCurr == 3
LinesMaxPrev == 2

In(d, cs, uid) == [d EXCEPT !.changeset_id = Num(cs), !.uid = Num(uid)]

LinesCurr ==
  { In(Rec("node", 10, Num(1), "create", Ts100, Geom(0, 0), TagsA, <<>>, <<>>), 5, 7),
    In(Rec("way", 1, Num(2), "modify", Ts300, NoGeom, TagsB, <<"10">>, <<>>), 5, 8),
    In(Rec("way", 1, Null, "modify", Ts100, NoGeom, NoTags, <<"10">>, <<>>), 6, 8),
    In(Rec("relation", 1, Num(2), "delete", Ts300, NoGeom, NoTags, <<>>, <<Member("10")>>),
       6, 7),
    BadLine }

LinesPrev ==
  { In(Rec("way", 1, Num(1), "", Ts100, NoGeom, TagsA, <<"10", "11">>, <<>>), 4, 7),
    In(Rec("node", 11, Num(1), "", Ts100, Geom(0, 60), NoTags, <<>>, <<>>), 4, 7),
    BadLine }

InitLines == InitRun(LinesCurr, LinesPrev, LinesMaxCurr, LinesMaxPrev)

SpecLines == InitLines /\ [][Next]_vars

(***************************************************************************)
(* Functions applied on their own: arg holds the argument, ret the result *)
(* once the function has returned.                                         *)
(***************************************************************************)
InitCall(Args, name) ==
  /\ arg \in Args
  /\ ret = <<>>
  /\ pc = name
  /\ pos = 1
  /\ input_prev = <<>>
  /\ input_curr = <<>>
  /\ prev_exists = FALSE
  /\ curr_exists = FALSE
  /\ prev_cache = EmptyMap
  /\ coords_prev = EmptyMap
  /\ coords_curr = EmptyMap
  /\ coords_prev_fallback = EmptyMap
  /\ stats_cs_size = EmptyMap
  /\ stats_user_edit = EmptyMap
  /\ stats_user_div = EmptyMap
  /\ results = <<>>
  /\ table = <<>>
  /\ NoCrawl

Return(name, value) ==
  /\ pc = name
  /\ ret' = value
  /\ pc' = "returned"
  /\ UNCHANGED <<inputs, crawler, pos, indices, results, table, arg>>

\* _calculate_way_metrics on reference lists of up to MaxRefs references
\* and caches of the nodes 10, 11 and 12
MaxRefs == 4

RawRefs == {"10", "11", "12", "010", "x"}

Caches ==
  { [key \in D |-> CASE key = Num(10) -> <<0, 0>>
                     [] key = Num(11) -> c11
                     [] key = Num(12) -> c12] :
      D \in SUBSET {Num(10), Num(11), Num(12)},
      c11 \in {<<0, 60>>, <<None, 60>>},
      c12 \in {<<60, 0>>, <<60, 60>>} }

InitWayMetrics ==
  InitCall([node_refs : SeqsUpTo(RawRefs, MaxRefs), coord_cache : Caches],
           "calculate_way_metrics")

CallWayMetrics ==
  Return("calculate_way_metrics", calculate_way_metrics(arg.node_refs, arg.coord_cache))

SpecWayMetrics == InitWayMetrics /\ [][CallWayMetrics]_vars

\* _haversine on pairs of points near the equator and near 60 degrees north
Points(Lats, Lons) == [lat : Lats \cup {None}, lon : Lons \cup {None}]

NearEquator == Points({0, 60}, {0, 60, 120})

North == Points({Lat60, Lat60 + HalfDegree}, {0, HalfDegree})

PointPairs == [a : NearEquator, b : NearEquator] \cup [a : North, b : North]

InitHaversine == InitCall(PointPairs, "haversine")

CallHaversine ==
  Return("haversine", haversine(arg.a.lat, arg.a.lon, arg.b.lat, arg.b.lon))

SpecHaversine == InitHaversine /\ [][CallHaversine]_vars

\* both variants of _haversine on points with absent and non-numeric
\* components
LoosePoints == [lat : {0, 60, None, NotNumber}, lon : {0, 60, None, NotNumber}]

LoosePairs == [a : LoosePoints, b : LoosePoints]

InitDistance ==
  \/ InitCall(LoosePairs, "haversine")
  \/ InitCall(LoosePairs, "scripts_haversine")

CallScriptsHaversine ==
  Return("scripts_haversine",
         scripts_haversine(arg.a.lat, arg.a.lon, arg.b.lat, arg.b.lon))

NextDistance == CallHaversine \/ CallScriptsHaversine

SpecDistance == InitDistance /\ [][NextDistance]_vars

\* the sanitizer on frames of up to MaxRows row mappings: a row of finite
\* numbers in which up to two cells are replaced or removed
MaxRows == 2

CellKinds == {Inf, NegInf, NaN, Null, Str("abc"), Str("12"), Num(-3)}

FullRow == [c \in cols |-> Num(1)]

Without(row, c) == [x \in DOMAIN row \ {c} |-> row[x]]

With(row, c, cell) == IF c \in DOMAIN row THEN [row EXCEPT ![c] = cell] ELSE row

OneChange(row) ==
  {Without(row, c) : c \in cols} \cup {With(row, c, cell) : c \in cols, cell \in CellKinds}

SampleRows ==
  {FullRow} \cup OneChange(FullRow)
    \cup OneChange(Without(FullRow, "time_gap_prev"))
    \cup OneChange(With(FullRow, "length_change_ratio", Inf))

\* the rows that follow the first one of a frame
OtherRows ==
  { FullRow, Without(FullRow, "time_gap_prev"), With(FullRow, "changeset_id", Str("abc")) }

Frames ==
  {<<>>} \cup {<<row>> \o rest : row \in SampleRows, rest \in SeqsUpTo(OtherRows, MaxRows - 1)}

InitSanitize == InitCall(Frames, "sanitize")

CallSanitize == Return("sanitize", Sanitize(arg))

SpecSanitize == InitSanitize /\ [][CallSanitize]_vars

(***************************************************************************)
(* The two crawlers of src/scripts.  objects_extractor.py appends to       *)
(* objects.jsonl, the stream input_curr, and rewrites the fetch queue;     *)
(* object_version_extractor.py appends to object_versions.jsonl, the       *)
(* stream input_prev.  The OSM API is the environment: each request gets   *)
(* one of the responses the code distinguishes.  An optional result is     *)
(* <<>> for None and <<x>> for x.  The ids and versions the crawlers write *)
(* are ints, which the text of a CSV cell or of a line gives back as they  *)
(* were.                                                                   *)
(***************************************************************************)
MaxRuns == 4

\* the changesets the API serves, in the order extract_objects lists their
\* objects: created, modified, deleted (lines 195-204)
Changesets == {5, 6, 7}

Object(cs, t, id, ver, act) ==
  In(Rec(t, id, Num(ver), act, Ts100, NoGeom, NoTags, <<>>, <<>>), cs, 7)

ChangesetObjects(cs) ==
  CASE cs = 5 -> <<Object(5, "node", 2, 1, "create"),
                   Object(5, "node", 1, 2, "modify"),
                   Object(5, "way", 1, 3, "delete")>>
    [] cs = 6 -> <<Object(6, "node", 1, 2, "modify"),
                   Object(6, "relation", 1, 2, "modify")>>
    [] OTHER -> <<>>

\* the lists process_changesets is called with
ChangesetLists ==
  {<<>>, <<5>>, <<6>>, <<7>>, <<5, 6>>, <<6, 5>>, <<5, 5>>, <<7, 5>>}

\* a download fails, gives text that is no XML, gives XML whose elements
\* lack an attribute int() needs, or gives the changeset
DownloadResponses == {"failed", "unparsable", "malformed", "ok"}

\* a version request fails, gives text that is no XML, gives XML without
\* an element of the type, or gives the version
VersionResponses == {"failed", "unparsable", "no_element", "ok"}

\* mutant: the processed file is not read
load_processed_changesets_Nothing(f) == {}

\* objects_extractor.py lines 60-74
load_processed_changesets(f) ==
  IF f.exists THEN {f.lines[i] : i \in DOMAIN f.lines} ELSE {}

\* mutant: a failed download counts as a changeset without objects
extract_objects_EmptyOnFailure(changeset_id, response) ==
  IF response = "ok" THEN <<ChangesetObjects(changeset_id)>> ELSE <<<<>>>>

\* objects_extractor.py lines 182-207, for the responses that raise nothing
extract_objects(changeset_id, response) ==
  CASE response = "failed" -> <<>>
    [] response = "unparsable" -> <<>>
    [] OTHER -> <<ChangesetObjects(changeset_id)>>

\* objects_extractor.py line 236
NeedsBeforeState(obj) ==
  /\ obj.ok
  /\ obj.action = "modify"
  /\ VersionGt1(GetOr(obj.version, Zero))

\* objects_extractor.py lines 237-239
QueueKey(obj) == <<obj.obj_type, obj.obj_id.n, obj.version.n - 1>>

\* objects_extractor.py lines 246-257
QueueRow(obj) ==
  [changeset_id |-> obj.changeset_id.n, action |-> obj.action,
   obj_type |-> obj.obj_type, obj_id |-> obj.obj_id.n,
   cur_version |-> obj.version.n, prev_version |-> obj.version.n - 1]

\* objects_extractor.py lines 222-257
RECURSIVE QueueItems(_, _)
QueueItems(lines, seen) ==
  IF lines = <<>> THEN <<>>
  ELSE LET obj == Head(lines)
       IN IF NeedsBeforeState(obj) /\ QueueKey(obj) \notin seen
            THEN <<QueueRow(obj)>>
                   \o QueueItems(Tail(lines), seen \cup {QueueKey(obj)})
            ELSE QueueItems(Tail(lines), seen)

\* objects_extractor.py lines 217-278: the queue file after the call
generate_fetch_queue(exists, lines, queue) ==
  IF ~exists THEN queue
  ELSE LET queue_items == QueueItems(lines, {})
       IN IF queue_items # <<>> THEN File(queue_items) ELSE queue

\* object_version_extractor.py lines 32-33
make_key(obj_type, obj_id, version) == <<obj_type, obj_id, version>>

\* object_version_extractor.py lines 35-53
load_processed_versions(f) ==
  IF f.exists THEN {f.lines[i] : i \in DOMAIN f.lines} ELSE {}

\* mutant: the versions file is not read
load_existing_keys_from_versions_file_Nothing(exists, lines) == {}

\* object_version_extractor.py lines 60-85
load_existing_keys_from_versions_file(exists, lines) ==
  IF ~exists THEN {}
  ELSE {<<lines[i].obj_type, lines[i].obj_id.n, lines[i].version.n>> :
          i \in {j \in DOMAIN lines :
                   /\ lines[j].ok
                   /\ lines[j].obj_type # ""
                   /\ lines[j].obj_id.k = "num"
                   /\ lines[j].version.k = "num"}}

\* object_version_extractor.py lines 113-184: the record of a version; the
\* API answers with the element it was asked for
VersionRecord(obj_type, obj_id, version) ==
  [Rec(obj_type, obj_id, Num(version), "", Ts100, NoGeom, TagsA, <<>>, <<>>)
     EXCEPT !.changeset_id = Absent, !.uid = Absent]

\* object_version_extractor.py lines 88-111 and 186-207
extract_version_info(response, obj_type, obj_id, version) ==
  IF response = "ok" THEN <<VersionRecord(obj_type, obj_id, version)>> ELSE <<>>

\* objects_extractor.py lines 283-296
StartChangesets ==
  /\ pc = "idle"
  /\ local.runs < MaxRuns
  /\ \E changeset_ids \in ChangesetLists, overwrite \in BOOLEAN :
       LET cleared == IF overwrite THEN NoFile ELSE processed_changesets
       IN /\ input_curr' = IF overwrite THEN <<>> ELSE input_curr
          /\ curr_exists' = (~overwrite /\ curr_exists)
          /\ queue_file' = IF overwrite THEN NoFile ELSE queue_file
          /\ processed_changesets' = cleared
          /\ local' = [runs |-> local.runs + 1, overwrite |-> overwrite,
                       changeset_ids |-> changeset_ids,
                       processed |-> load_processed_changesets(cleared),
                       requests |-> <<>>]
  /\ pc' = "changesets"
  /\ pos' = 1
  /\ UNCHANGED <<input_prev, prev_exists, processed_versions, indices, results,
                 table, arg, ret>>

\* objects_extractor.py lines 298-319: one changeset of the list
ChangesetStep ==
  /\ pc = "changesets"
  /\ pos <= Len(local.changeset_ids)
  /\ LET cs_id == local.changeset_ids[pos]
     IN IF cs_id \in local.processed
          THEN /\ pos' = pos + 1
               /\ UNCHANGED <<input_curr, curr_exists, processed_changesets,
                              local, pc>>
          ELSE \E response \in DownloadResponses :
                 LET objects == extract_objects(cs_id, response)
                     request == [item |-> cs_id, response |-> response]
                     requests == Append(local.requests, request)
                 IN CASE response = "malformed" ->
                           /\ pc' = "idle"
                           /\ local' = [local EXCEPT !.requests = requests]
                           /\ UNCHANGED <<input_curr, curr_exists,
                                          processed_changesets, pos>>
                      [] objects = <<>> ->
                           /\ pos' = pos + 1
                           /\ local' = [local EXCEPT !.requests = requests]
                           /\ UNCHANGED <<input_curr, curr_exists,
                                          processed_changesets, pc>>
                      [] OTHER ->
                           /\ input_curr' = input_curr \o objects[1]
                           /\ curr_exists' = (curr_exists \/ objects[1] # <<>>)
                           /\ processed_changesets' =
                                File(Append(processed_changesets.lines, cs_id))
                           /\ local' = [local EXCEPT
                                          !.requests = requests,
                                          !.processed = @ \cup {cs_id}]
                           /\ pos' = pos + 1
                           /\ UNCHANGED pc
  /\ UNCHANGED <<input_prev, prev_exists, queue_file, processed_versions,
                 indices, results, table, arg, ret>>

\* objects_extractor.py lines 321-327: the end of the list, and the queue
\* written again from the whole of objects.jsonl
ChangesetsEnd ==
  /\ pc = "changesets"
  /\ pos > Len(local.changeset_ids)
  /\ queue_file' = generate_fetch_queue(curr_exists, input_curr, queue_file)
  /\ pc' = "idle"
  /\ UNCHANGED <<inputs, pos, processed_changesets, processed_versions, local,
                 indices, results, table, arg, ret>>

\* object_version_extractor.py lines 215-232
StartQueue ==
  /\ pc = "idle"
  /\ local.runs < MaxRuns
  /\ \E overwrite \in BOOLEAN :
       IF ~queue_file.exists
         THEN /\ local' = [runs |-> local.runs + 1, overwrite |-> overwrite,
                           changeset_ids |-> <<>>, processed |-> {},
                           requests |-> <<>>]
              /\ UNCHANGED <<input_prev, prev_exists, processed_versions, pc>>
         ELSE LET cleared == IF overwrite THEN NoFile ELSE processed_versions
                  exists == ~overwrite /\ prev_exists
                  lines == IF overwrite THEN <<>> ELSE input_prev
              IN /\ input_prev' = lines
                 /\ prev_exists' = exists
                 /\ processed_versions' = cleared
                 /\ local' =
                      [runs |-> local.runs + 1, overwrite |-> overwrite,
                       changeset_ids |-> <<>>,
                       processed |->
                         load_processed_versions(cleared)
                           \cup load_existing_keys_from_versions_file(exists, lines),
                       requests |-> <<>>]
                 /\ pc' = "queue"
  /\ pos' = 1
  /\ UNCHANGED <<input_curr, curr_exists, queue_file, processed_changesets,
                 indices, results, table, arg, ret>>

\* object_version_extractor.py lines 237-269: one row of the queue
QueueStep ==
  /\ pc = "queue"
  /\ pos <= Len(queue_file.lines)
  /\ LET row == queue_file.lines[pos]
         key == make_key(row.obj_type, row.obj_id, row.prev_version)
     IN IF key \in local.processed
          THEN UNCHANGED <<input_prev, prev_exists, processed_versions, local>>
          ELSE \E response \in VersionResponses :
                 LET version_obj ==
                       extract_version_info(response, row.obj_type, row.obj_id,
                                            row.prev_version)
                     request == [item |-> key, response |-> response]
                     requests == Append(local.requests, request)
                 IN IF version_obj # <<>>
                      THEN /\ input_prev' = Append(input_prev, version_obj[1])
                           /\ prev_exists' = TRUE
                           /\ processed_versions' =
                                File(Append(processed_versions.lines, key))
                           /\ local' = [local EXCEPT
                                          !.requests = requests,
                                          !.processed = @ \cup {key}]
                      ELSE /\ local' = [local EXCEPT !.requests = requests]
                           /\ UNCHANGED <<input_prev, prev_exists,
                                          processed_versions>>
  /\ pos' = pos + 1
  /\ UNCHANGED <<input_curr, curr_exists, pc, queue_file, processed_changesets,
                 indices, results, table, arg, ret>>

\* object_version_extractor.py lines 271-279: the end of the queue
QueueEnd ==
  /\ pc = "queue"
  /\ pos > Len(queue_file.lines)
  /\ pc' = "idle"
  /\ UNCHANGED <<inputs, crawler, pos, indices, results, table, arg, ret>>

NextCrawl ==
  \/ StartChangesets
  \/ ChangesetStep
  \/ ChangesetsEnd
  \/ StartQueue
  \/ QueueStep
  \/ QueueEnd

\* No file of the changeset crawler exists; object_versions.jsonl is absent
\* or is the file the crawler of src/object_version_extractor.py left,
\* which keeps no processed_versions.txt.
InitCrawl ==
  /\ prev_exists \in BOOLEAN
  /\ input_prev \in IF prev_exists
                      THEN {<<>>, <<VersionRecord("node", 1, 1)>>}
                      ELSE {<<>>}
  /\ input_curr = <<>>
  /\ curr_exists = FALSE
  /\ pc = "idle"
  /\ pos = 1
  /\ prev_cache = EmptyMap
  /\ coords_prev = EmptyMap
  /\ coords_curr = EmptyMap
  /\ coords_prev_fallback = EmptyMap
  /\ stats_cs_size = EmptyMap
  /\ stats_user_edit = EmptyMap
  /\ stats_user_div = EmptyMap
  /\ results = <<>>
  /\ table = <<>>
  /\ arg = <<>>
  /\ ret = <<>>
  /\ NoCrawl

SpecCrawl == InitCrawl /\ [][NextCrawl]_vars

(***************************************************************************)
(* Properties.  The rows of results are the rows of the records of the    *)
(* current stream on which neither json.loads nor extract_row raised, in  *)
(* stream order: the row of line i is the one at RowIndex(i).  EachRow(P) *)
(* says that the rows extracted so far are these, and that P holds of     *)
(* every record and its row.                                               *)
(***************************************************************************)
\* the lines of the current stream the extraction loop has been through
Scanned ==
  CASE pc = "extract" -> pos - 1
    [] pc = "done" -> Len(input_curr)
    [] OTHER -> 0

Emitted(i) == input_curr[i].ok /\ ~ExtractRaises(input_curr[i], Idx)

RowIndex(i) == Cardinality({j \in 1..i : Emitted(j)})

RowOf(i) == results[RowIndex(i)]

EachRow(P(_, _)) ==
  /\ Len(results) = RowIndex(Scanned)
  /\ \A i \in 1..Scanned : Emitted(i) => P(input_curr[i], RowOf(i))

SomeRow(P(_, _)) ==
  /\ Len(results) = RowIndex(Scanned)
  /\ \E i \in 1..Scanned : Emitted(i) /\ P(input_curr[i], RowOf(i))

\* the key of the predecessor of a record, (type, id, version - 1)
PredKey(curr) ==
  <<curr.obj_type, curr.obj_id,
    IF curr.version.k = "num" THEN Num(curr.version.n - 1) ELSE curr.version>>

\* the record is one the extractor diffs: neither a create nor a version 1
IsDiffed(curr) ==
  /\ curr.action \notin {"create", "Create"}
  /\ curr.version.k = "num"
  /\ curr.version.n > 1

HasPredecessor(curr) == IsDiffed(curr) /\ PredKey(curr) \in DOMAIN prev_cache

Predecessor(curr) == prev_cache[PredKey(curr)]

\* the index holds a record of the same object
ObjectInIndex(curr) ==
  \E key \in DOMAIN prev_cache : key[1] = curr.obj_type /\ key[2] = curr.obj_id

\* the length of the reference list of a record
RefLen(d) == IF Len(d.node_refs) > 0 THEN Len(d.node_refs) ELSE Len(d.members)

\* C1: once run() has written the table, every cell of every row, in each
\* of the 22 columns, is a finite number: not null, not NaN, not infinite,
\* not a string.
C1_TableNumeric ==
  pc = "done" =>
    /\ Len(table) = Len(results)
    /\ \A r \in 1..Len(table) :
         /\ DOMAIN table[r] = cols
         /\ \A c \in cols : IsNumber(table[r][c])

\* a table was written from rows that held an infinity, a NaN, a null and
\* a string
C1_Witness ==
  /\ pc = "done"
  /\ Len(table) = 2
  /\ \E r \in 1..2 : results[r].changeset_id \in {Inf, NegInf}
  /\ \E r \in 1..2 : results[r].changeset_id = NaN
  /\ \E r \in 1..2 : results[r].version_count = Null
  /\ \E r \in 1..2 : results[r].obj_id.k = "str"

\* the number of references of a list that resolve to coordinates in an index
Resolves(nid, cache) ==
  /\ CoerceRef(nid) \in DOMAIN cache
  /\ cache[CoerceRef(nid)][1] # None
  /\ cache[CoerceRef(nid)][2] # None

ResolvedCount(refs, cache) == Cardinality({i \in 1..Len(refs) : Resolves(refs[i], cache)})

PreprocessDone == pc \in {"extract", "done", "aborted"}

\* the length of the predecessor of a way, over the fallback index
PrevLength(curr) ==
  calculate_way_metrics(Predecessor(curr).node_refs, coords_prev_fallback).length_m

PrevCentroid(curr) ==
  calculate_way_metrics(Predecessor(curr).node_refs, coords_prev_fallback).centroid

FewResolved(curr) ==
  curr.obj_type = "way" /\ ResolvedCount(curr.node_refs, coords_curr) < 2

C2_AllZero(curr, row) ==
  FewResolved(curr) =>
    /\ row.length_change_ratio = Zero
    /\ row.area_change_ratio = Zero
    /\ row.centroid_shift = Zero

C2_Amended(curr, row) ==
  FewResolved(curr) =>
    IF HasPredecessor(curr) /\ PrevLength(curr) > 0
      THEN /\ row.length_change_ratio = Num(-1)
           /\ row.area_change_ratio \in {Zero, Num(-1)}
           /\ row.centroid_shift =
                Num(haversine(0, 0, PrevCentroid(curr)[1], PrevCentroid(curr)[2]))
      ELSE /\ row.length_change_ratio = Zero
           /\ row.area_change_ratio = Zero
           /\ row.centroid_shift = Zero

C2_Case(curr, row) ==
  /\ FewResolved(curr)
  /\ ResolvedCount(curr.node_refs, coords_curr) = 1
  /\ HasPredecessor(curr)
  /\ PrevLength(curr) > 0
  /\ row.length_change_ratio = Num(-1)
  /\ row.centroid_shift # Zero

C3_AsStated(curr, row) ==
  row.node_count_change =
    IF HasPredecessor(curr)
      THEN Num(RefLen(curr) - RefLen(Predecessor(curr)))
      ELSE Zero

\* C3 as stated: node_count_change is the difference of the two list
\* lengths when a predecessor is found and 0 for every record without one.
C3_NodeCountZeroWithoutPredecessor == EachRow(C3_AsStated)

C3_Amended(curr, row) ==
  row.node_count_change =
    IF HasPredecessor(curr)
      THEN Num(RefLen(curr) - RefLen(Predecessor(curr)))
      ELSE Num(RefLen(curr))

\* C3 amended: node_count_change is the difference of the two list lengths
\* when a predecessor is found, and the length of the current list for
\* every record without one (the missing list counts as empty).
C3_NodeCountChange == EachRow(C3_Amended)

C3_CaseWithout(curr, row) ==
  ~HasPredecessor(curr) /\ RefLen(curr) = 2 /\ row.node_count_change = Num(2)

C3_CaseWith(curr, row) ==
  /\ HasPredecessor(curr)
  /\ RefLen(Predecessor(curr)) = 2
  /\ row.node_count_change = Num(-1)

\* a record with two references and no predecessor got its row, and so
\* did a relation with one member whose predecessor has two
C3_Witness == SomeRow(C3_CaseWithout) /\ SomeRow(C3_CaseWith)

Complete(entry) == entry[1] # None /\ entry[2] # None

\* C4 as stated: after preprocess() no coordinate index holds an entry
\* with a missing latitude or longitude.
C4_NoMissingComponent ==
  PreprocessDone =>
    /\ \A id \in DOMAIN coords_curr : Complete(coords_curr[id])
    /\ \A id \in DOMAIN coords_prev : Complete(coords_prev[id])
    /\ \A id \in DOMAIN coords_prev_fallback : Complete(coords_prev_fallback[id])

\* the entries a stream gives: one per node id that has a record with a
\* non-empty geom, holding the lat and lon of the last such record
GeomLines(stream, id) ==
  {i \in 1..Len(stream) :
     /\ stream[i].ok
     /\ stream[i].obj_type = "node"
     /\ stream[i].obj_id = id
     /\ stream[i].geom.has = "map"}

Last(S) == CHOOSE i \in S : \A j \in S : j <= i

EntriesOf(stream, cache) ==
  /\ \A id \in DOMAIN cache :
       /\ GeomLines(stream, id) # {}
       /\ cache[id] = <<stream[Last(GeomLines(stream, id))].geom.lat,
                        stream[Last(GeomLines(stream, id))].geom.lon>>
  /\ \A i \in 1..Len(stream) :
       GeomLines(stream, stream[i].obj_id) # {} => stream[i].obj_id \in DOMAIN cache

\* C4 amended: after preprocess() each coordinate index holds an entry
\* exactly for the node ids that have a record with a non-empty geom; a
\* node record whose geom is absent, null or empty is never inserted, and
\* a missing lat or lon of a non-empty geom is stored as None, which no
\* reference resolves to.
C4_EntriesFromNonEmptyGeom ==
  PreprocessDone =>
    /\ EntriesOf(input_curr, coords_curr)
    /\ EntriesOf(input_prev, coords_prev)
    /\ \A id \in DOMAIN coords_prev_fallback :
         id \in DOMAIN coords_curr \cup DOMAIN coords_prev
    /\ \A nid \in IntRefs :
         ResolveRef(nid, coords_prev_fallback) # <<>> =>
           Complete(ResolveRef(nid, coords_prev_fallback)[1])

\* both streams were scanned: the current index holds an entry with a
\* missing component next to a complete one, which the fallback index
\* took over, while a node of the prior stream with an empty geom has no
\* entry
C4_Witness ==
  /\ PreprocessDone
  /\ \E id \in DOMAIN coords_curr : ~Complete(coords_curr[id])
  /\ \E id \in DOMAIN coords_curr : Complete(coords_curr[id])
  /\ \E id \in DOMAIN coords_prev_fallback : ~Complete(coords_prev_fallback[id])
  /\ \E i \in 1..Len(input_prev) :
       input_prev[i].geom.has = "empty" /\ input_prev[i].obj_id \notin DOMAIN coords_prev

C5_Baseline(curr, row) ==
  (curr.version = Num(1) /\ curr.action = "create") =>
    /\ row.created_time = row.last_modified_time
    /\ row.tag_add_count = row.tag_count
    /\ row.tag_remove_count = Zero

\* C5: the row of a record with version 1 and action "create" has
\* created_time = last_modified_time, tag_add_count = tag_count and
\* tag_remove_count = 0, whatever the prior-version index holds.
C5_CreateBaseline == EachRow(C5_Baseline)

C5_Case(curr, row) ==
  /\ curr.version = Num(1)
  /\ curr.action = "create"
  /\ row.tag_count = Num(1)
  /\ row.created_time = Num(100)
  /\ ObjectInIndex(curr)

\* a tagged, timestamped create of version 1 got its row while the index
\* holds a record of the same object
C5_Witness == SomeRow(C5_Case)

\* the end-to-end scenario of C6
C6_Scenario(curr) ==
  /\ curr = WayRec(2, "modify", <<"10", "11">>)
  /\ HasPredecessor(curr)
  /\ Predecessor(curr).node_refs = <<"10">>
  /\ DOMAIN coords_curr = {Num(10), Num(11)}
  /\ coords_curr[Num(10)] = <<0, 0>>
  /\ coords_curr[Num(11)] = <<0, 60>>
  /\ DOMAIN coords_prev = {Num(10)}
  /\ coords_prev[Num(10)] = <<0, 0>>

C6_AsStated(curr, row) == C6_Scenario(curr) => row.length_change_ratio = Zero

\* C6 as stated: in the scenario length_change_ratio is 0.
C6_ScenarioRatioZero == EachRow(C6_AsStated)

C6_Amended(curr, row) ==
  C6_Scenario(curr) =>
    /\ row.length_change_ratio = [k |-> "num", n |-> 111180, d |-> 1, e |-> 1, s |-> ""]
    /\ row.node_count_change = Num(1)

\* C6 amended: in the scenario length_change_ratio is the current length,
\* 111.18 m, divided by the 1e-6 floor: a large positive finite number;
\* node_count_change is 1.
C6_ScenarioRatioLarge == EachRow(C6_Amended)

C6_Case(curr, row) ==
  /\ C6_Scenario(curr)
  /\ row.length_change_ratio.e = 1
  /\ row.node_count_change = Num(1)

\* the way of the scenario got its row
C6_Witness == SomeRow(C6_Case)

\* the indices with an empty prior-version index
IdxWithoutPrev == [Idx EXCEPT !.prev_cache = EmptyMap]

\* the row a record would get if the prior-version index were empty
RowWithoutIndex(curr) == extract_row(curr, IdxWithoutPrev)

KeyAbsent(curr) == curr.ok /\ IsDiffed(curr) /\ PredKey(curr) \notin DOMAIN prev_cache

C7_Baseline(curr, row) ==
  KeyAbsent(curr) =>
    /\ row = RowWithoutIndex(curr)
    /\ row.tag_add_count = row.tag_count
    /\ row.tag_remove_count = Zero
    /\ row.tag_modify_count = Zero
    /\ row.length_change_ratio = Zero
    /\ row.area_change_ratio = Zero
    /\ row.centroid_shift = Zero
    /\ row.time_gap_prev = Zero

\* C7: a record that is diffed (action not create, version > 1) and whose
\* key (type, id, version - 1) is not in the prior-version index is
\* treated as it would be with an empty index: it gets the same row, with
\* the create-like baseline, and the absent key raises no error (its row
\* is skipped only if it would be skipped with an empty index too, which
\* of the records here is the way that carries members instead of
\* node_refs).
C7_AbsentIsNoPredecessor ==
  /\ EachRow(C7_Baseline)
  /\ \A i \in 1..Scanned :
       KeyAbsent(input_curr[i]) =>
         /\ Emitted(i) <=> ~ExtractRaises(input_curr[i], IdxWithoutPrev)
         /\ Emitted(i) <=>
              ~(/\ input_curr[i].obj_type = "way"
                /\ input_curr[i].node_refs = <<>>
                /\ input_curr[i].members # <<>>)

C7_Case(curr, row) ==
  /\ KeyAbsent(curr)
  /\ ObjectInIndex(curr)
  /\ row = RowWithoutIndex(curr)
  /\ row.tag_count = Num(2)

\* a modified version 2 got its row while the index holds only other
\* versions of the same object
C7_Witness == SomeRow(C7_Case)

C8_Baseline(curr, row) ==
  (curr.obj_type = "node" /\ ~HasPredecessor(curr)) =>
    /\ row.centroid_shift = Zero
    /\ row.tag_add_count = row.tag_count
    /\ row.tag_remove_count = Zero
    /\ row.tag_modify_count = Zero

\* C8: a node record without a predecessor in the index gets
\* centroid_shift = 0, tag_add_count = tag_count, tag_remove_count = 0 and
\* tag_modify_count = 0, with or without geometry.
C8_NodeWithoutPredecessor == EachRow(C8_Baseline)

C8_Case(curr, row) ==
  /\ curr.obj_type = "node"
  /\ curr.geom = Geom(0, 60)
  /\ IsDiffed(curr)
  /\ ~HasPredecessor(curr)
  /\ ObjectInIndex(curr)
  /\ row.tag_count = Num(2)
  /\ row.centroid_shift = Zero

\* a modified node away from the origin, tagged, got its row without a
\* predecessor, while the index holds another version of it
C8_Witness == SomeRow(C8_Case)

Returned == pc = "returned"

\* an open reference list: the first and the last raw reference differ as
\* strings, or there are fewer than 3 references
IsOpen(refs) == Len(refs) < 3 \/ refs[1] # refs[Len(refs)]

\* C9: the area of a way with an open reference list is 0 for every
\* coordinate assignment; the area is not 0 only if the list is closed and
\* at least 3 coordinates resolved.
C9_OpenWayNoArea ==
  Returned =>
    /\ IsOpen(arg.node_refs) => ret.area_m2 = 0
    /\ ret.area_m2 # 0 =>
         /\ ~IsOpen(arg.node_refs)
         /\ ResolvedCount(arg.node_refs, arg.coord_cache) >= 3

\* an open way over three resolved nodes that span a triangle, ending in
\* another spelling of its first node, has length and no area
C9_Witness ==
  /\ Returned
  /\ arg.node_refs = <<"10", "11", "12", "010">>
  /\ ResolvedCount(arg.node_refs, arg.coord_cache) = 4
  /\ ret.length_m > 0
  /\ ret.area_m2 = 0

\* a closed way over the same nodes has an area
C9_ClosedWitness ==
  /\ Returned
  /\ arg.node_refs = <<"10", "11", "12", "10">>
  /\ ret.area_m2 > 0

\* a cell the sanitizer has to replace: a null, a non-numeric string, an
\* infinity (a NaN too)
Offending(cell) ==
  \/ cell.k \in {"null", "inf", "ninf", "nan"}
  \/ cell.k = "str" /\ cell.s \notin NumericStrings

\* C10: the sanitizer maps every offending cell to 0, whatever the other
\* cells of the row are: a column the row mapping lacks, a non-numeric
\* string, a null and an infinity are each 0 in the table, in every column.
C10_OffendingCellsZero ==
  Returned =>
    /\ Len(ret) = Len(arg)
    /\ \A r \in 1..Len(arg) :
         /\ DOMAIN ret[r] = cols
         /\ \A c \in cols :
              IF c \notin DOMAIN arg[r] THEN ret[r][c] = Zero
              ELSE IF Offending(arg[r][c]) THEN ret[r][c] = Zero
              ELSE IsNumber(ret[r][c])

\* a row that lacks one column, which the next row has, and holds an
\* infinity in another went through the sanitizer
C10_Witness ==
  /\ Returned
  /\ Len(arg) = 2
  /\ arg[2] = FullRow
  /\ DOMAIN arg[1] = cols \ {"time_gap_prev"}
  /\ arg[1]["length_change_ratio"] = Inf
  /\ ret[1]["time_gap_prev"] = Zero
  /\ ret[1]["length_change_ratio"] = Zero
  /\ ret[1]["changeset_id"] = Num(1)

\* C11: no step of the extraction pass changes an index: prev_cache, the
\* three coordinate indices, the changeset counter, the author edit counter
\* and the author type-set map are after every extract_row call what they
\* were before it, with the same keys.
C11_ExtractionKeepsIndices ==
  [][pc = "extract" => UNCHANGED indices]_vars

\* rows were extracted for a record whose predecessor key is not in
\* prev_cache and for a record whose changeset id no lookup finds, the
\* scan having skipped its line
C11_Witness ==
  /\ pc = "done"
  /\ Len(results) = 2
  /\ \E i \in 1..2 : Emitted(i) /\ KeyAbsent(input_curr[i])
  /\ \E i \in 1..2 :
       Emitted(i) /\ ~HasKey(stats_cs_size, input_curr[i].changeset_id)

\* the lines of a stream that json.loads accepts
WithoutMalformed(stream) == SelectSeq(stream, LAMBDA d : d.ok)

\* the part of a stream a loop at line pos has been through
Prefix(stream) == SubSeq(stream, 1, pos - 1)

PrevScanned ==
  CASE pc = "prev_scan" -> Prefix(input_prev)
    [] OTHER -> input_prev

CurrScanned ==
  CASE pc = "prev_scan" -> <<>>
    [] pc = "curr_scan" -> Prefix(input_curr)
    [] OTHER -> input_curr

Extracted ==
  CASE pc = "extract" -> Prefix(input_curr)
    [] pc = "done" -> input_curr
    [] OTHER -> <<>>

\* what the scans make of a stream of records, every line of which is read
\* as a record: the last record filed under each key, the coordinates of
\* the last node record with a non-empty geom under each node id, the
\* number of records of each changeset and author, the types of each author
LinesWith(stream, F(_), key) == {i \in 1..Len(stream) : F(stream[i]) = key}

KeysOf(stream, F(_)) == {F(stream[i]) : i \in 1..Len(stream)}

PrevCacheOf(stream) ==
  [key \in KeysOf(stream, CacheKey) |-> stream[Last(LinesWith(stream, CacheKey, key))]]

NodeLines(stream) == SelectSeq(stream, HasCoords)

IdOf(d) == d.obj_id

CoordsOf(stream) ==
  [id \in KeysOf(NodeLines(stream), IdOf) |->
     LET d == NodeLines(stream)[Last(LinesWith(NodeLines(stream), IdOf, id))]
     IN <<d.geom.lat, d.geom.lon>>]

ChangesetOf(d) == d.changeset_id

AuthorOf(d) == GetOr(d.uid, Num(0))

CountsOf(stream, F(_)) ==
  [key \in KeysOf(stream, F) |-> Cardinality(LinesWith(stream, F, key))]

TypesOf(stream) ==
  [uid \in KeysOf(stream, AuthorOf) |->
     {stream[i].obj_type : i \in LinesWith(stream, AuthorOf, uid)}]

\* the rows of a stream of records: one for each record extract_row
\* returns on, in stream order
RECURSIVE RowsOf(_, _)
RowsOf(stream, idx) ==
  IF stream = <<>> THEN <<>>
  ELSE (IF ExtractRaises(Head(stream), idx) THEN <<>>
        ELSE <<extract_row(Head(stream), idx)>>) \o RowsOf(Tail(stream), idx)

\* C12: a line json.loads rejects has no effect, in either stream and in
\* either pass: at every point of the run the indices, the statistics and
\* the rows are those of the streams read so far with their malformed
\* lines removed, and so is the table when the run has written it.
C12_MalformedLinesIgnored ==
  /\ prev_cache = PrevCacheOf(WithoutMalformed(PrevScanned))
  /\ coords_prev = CoordsOf(WithoutMalformed(PrevScanned))
  /\ coords_curr = CoordsOf(WithoutMalformed(CurrScanned))
  /\ stats_cs_size = CountsOf(WithoutMalformed(CurrScanned), ChangesetOf)
  /\ stats_user_edit = CountsOf(WithoutMalformed(CurrScanned), AuthorOf)
  /\ stats_user_div = TypesOf(WithoutMalformed(CurrScanned))
  /\ results = RowsOf(WithoutMalformed(Extracted), Idx)
  /\ pc = "done" => table = Sanitize(RowsOf(WithoutMalformed(input_curr), Idx))

\* a run came to its end over streams that each hold a malformed line
\* before a record, with a row and an index entry from the records after
\* the malformed lines
C12_Witness ==
  /\ pc = "done"
  /\ Len(input_prev) = 2 /\ ~input_prev[1].ok /\ input_prev[2].ok
  /\ Len(input_curr) = 3 /\ input_curr[1].ok /\ ~input_curr[2].ok /\ input_curr[3].ok
  /\ Len(table) = 2
  /\ CacheKey(input_prev[2]) \in DOMAIN prev_cache
  /\ stats_cs_size[input_curr[3].changeset_id] >= 1

\* the number of rows the records before line i have
RowsBefore(i) == IF i = 1 THEN 0 ELSE RowIndex(i - 1)

\* C13: a record of the current stream on which extract_row raises gets
\* no row, neither a partial nor a default one, and every other record
\* gets its row: the rows are exactly the rows extract_row returns, in
\* stream order, and the table has one row for each.
C13_RowsOfSucceededRecords ==
  /\ Len(results) = RowIndex(Scanned)
  /\ \A i \in 1..Scanned :
       IF Emitted(i)
         THEN /\ RowIndex(i) = RowsBefore(i) + 1
              /\ RowOf(i) = extract_row(input_curr[i], Idx)
              /\ DOMAIN RowOf(i) = cols
         ELSE RowIndex(i) = RowsBefore(i)
  /\ pc = "done" => Len(table) = Len(results)

\* a run came to its end over a stream whose second record made
\* extract_row raise, with the rows of the first and the third record
C13_Witness ==
  /\ pc = "done"
  /\ Len(input_curr) = 3
  /\ input_curr[2].ok /\ ExtractRaises(input_curr[2], Idx)
  /\ Emitted(1) /\ Emitted(3)
  /\ input_curr[1] # input_curr[3]
  /\ Len(table) = 2
  /\ results = <<extract_row(input_curr[1], Idx), extract_row(input_curr[3], Idx)>>

\* C14: without the current input file run() stops before it extracts a
\* row and writes no table; without the prior input file alone it does not
\* stop: it goes on with an empty prior-version index and an empty prior
\* coordinate index, through the extraction, to the written table.
C14_OnlyCurrentSourceIsFatal ==
  /\ ~curr_exists =>
       /\ pc # "done"
       /\ results = <<>>
       /\ table = <<>>
  /\ pc = "aborted" => ~curr_exists
  /\ ~prev_exists =>
       /\ prev_cache = EmptyMap
       /\ coords_prev = EmptyMap
       /\ pc \in {"extract", "done", "aborted"} => coords_prev_fallback = coords_curr
  /\ curr_exists =>
       /\ pc # "aborted"
       /\ pc = "done" => table = Sanitize(RowsOf(WithoutMalformed(input_curr), Idx))

\* run() has returned without the current input file, after the scan of a
\* prior stream that filled the prior-version index
C14_Witness ==
  /\ pc = "aborted"
  /\ ~curr_exists
  /\ prev_exists
  /\ Len(input_prev) = 2
  /\ prev_cache # EmptyMap
  /\ results = <<>>
  /\ table = <<>>

\* a table of two rows was written without the prior input file
C14_ProceedsWitness ==
  /\ pc = "done"
  /\ ~prev_exists
  /\ curr_exists
  /\ Len(table) = 2

ValidPoint(p) == p.lat # None /\ p.lon # None

\* C15: the distance of a valid point from itself is 0, and the distance
\* of two valid points is the same in either order (a call with a missing
\* component returns 0, in either order too).
C15_DistanceZeroAndSymmetric ==
  Returned =>
    /\ ret = haversine(arg.b.lat, arg.b.lon, arg.a.lat, arg.a.lon)
    /\ arg.a = arg.b => ret = 0
    /\ haversine(arg.a.lat, arg.a.lon, arg.a.lat, arg.a.lon) = 0
    /\ (ValidPoint(arg.a) /\ ValidPoint(arg.b) /\ arg.a # arg.b) => ret > 0

\* the distance of two valid points of different latitude and longitude,
\* away from the equator, has been computed
C15_Witness ==
  /\ Returned
  /\ arg.a = [lat |-> Lat60, lon |-> 0]
  /\ arg.b = [lat |-> Lat60 + HalfDegree, lon |-> HalfDegree]
  /\ ret > 0

\* and so has the distance of a valid point from itself
C15_SamePointWitness ==
  /\ Returned
  /\ arg.a = arg.b
  /\ arg.a = [lat |-> 60, lon |-> 120]
  /\ ret = 0

\* the prior-version index cut down to the one entry a record may be
\* diffed against: the entry at (type, id, version - 1) when the record is
\* neither a create nor a version 1, no entry otherwise
OnlyPredecessor(curr) ==
  [key \in (IF IsDiffed(curr) THEN {PredKey(curr)} \cap DOMAIN prev_cache ELSE {}) |->
     prev_cache[key]]

PredecessorTags(curr) == IF HasPredecessor(curr) THEN Predecessor(curr).tags ELSE NoTags

C16_DiffedAgainst(curr, row) ==
  /\ row = extract_row(curr, [Idx EXCEPT !.prev_cache = OnlyPredecessor(curr)])
  /\ row.tag_add_count = Num(Cardinality(DOMAIN curr.tags \ DOMAIN PredecessorTags(curr)))
  /\ row.tag_remove_count = Num(Cardinality(DOMAIN PredecessorTags(curr) \ DOMAIN curr.tags))
  /\ row.node_count_change =
       Num(RefLen(curr) - (IF HasPredecessor(curr) THEN RefLen(Predecessor(curr)) ELSE 0))
  /\ ~IsDiffed(curr) =>
       /\ row = RowWithoutIndex(curr)
       /\ row.tag_add_count = row.tag_count
       /\ row.time_gap_prev = Zero

\* C16: a record is diffed against the index entry at (type, id,
\* version - 1) and against no other, and only when its action is not
\* create and its version is above 1: the row of a create or of a version
\* 1 is the row it gets with an empty index, also when the index holds an
\* entry at (type, id, version - 1).
C16_PredecessorIsVersionMinusOne == EachRow(C16_DiffedAgainst)

C16_CaseCreate(curr, row) ==
  /\ curr.action \in {"create", "Create"}
  /\ <<curr.obj_type, curr.obj_id, Num(curr.version.n - 1)>> \in DOMAIN prev_cache
  /\ row.tag_count = Num(1)
  /\ row.tag_add_count = Num(1)

C16_CaseDiffed(curr, row) ==
  /\ HasPredecessor(curr)
  /\ Cardinality(DOMAIN prev_cache) = 1
  /\ row.tag_add_count = Num(1)
  /\ row.tag_modify_count = Num(1)
  /\ row.time_gap_prev = Num(200)

\* a create got its row while the index holds an entry at its (type, id,
\* version - 1)
C16_Witness == SomeRow(C16_CaseCreate)

\* and a modified version 2 got its row against the version 1 of the index
C16_DiffedWitness == SomeRow(C16_CaseDiffed)

\* the records of the whole current stream that the scan counts under a
\* changeset id: those json.loads accepts, whether extract_row returns on
\* them or not
CountedIn(cid) ==
  {j \in 1..Len(input_curr) : input_curr[j].ok /\ input_curr[j].changeset_id = cid}

C17_WholeStream(curr, row) ==
  row.changeset_size = Num(Cardinality(CountedIn(curr.changeset_id)))

\* C17: no row is extracted before both scans have come to their end, and
\* the changeset_size of every row is the number of counted records of
\* the whole current stream with the changeset id of the row, the records
\* after its own one included; it is never a running count.
C17_ContextFromWholeStream ==
  /\ pc \in {"prev_scan", "curr_scan"} => results = <<>>
  /\ pc \in {"extract", "done"} =>
       /\ stats_cs_size = CountsOf(WithoutMalformed(input_curr), ChangesetOf)
       /\ prev_cache = PrevCacheOf(WithoutMalformed(input_prev))
  /\ EachRow(C17_WholeStream)

\* the first record has its row, which counts two records of its
\* changeset, while the second of them, two lines later, has not been
\* extracted
C17_Witness ==
  /\ pc = "extract"
  /\ pos = 2
  /\ Len(input_curr) = 3
  /\ Len(results) = 1
  /\ CountedIn(input_curr[1].changeset_id) = {1, 3}
  /\ results[1].changeset_size = Num(2)

\* C18: after preprocess() the keys of the fallback coordinate index are
\* those of the current and of the prior coordinate index together; under
\* every id of the prior index it holds the prior coordinates, also when
\* the current index has the id, and under every id of the current index
\* alone the current coordinates.
C18_FallbackPriorWins ==
  IF PreprocessDone
    THEN /\ DOMAIN coords_prev_fallback = DOMAIN coords_curr \cup DOMAIN coords_prev
         /\ \A id \in DOMAIN coords_prev : coords_prev_fallback[id] = coords_prev[id]
         /\ \A id \in DOMAIN coords_curr \ DOMAIN coords_prev :
              coords_prev_fallback[id] = coords_curr[id]
    ELSE coords_prev_fallback = EmptyMap

\* preprocess() has returned with a node in both indices, at different
\* coordinates, and the fallback index holds the prior ones
C18_Witness ==
  /\ PreprocessDone
  /\ \E id \in DOMAIN coords_curr \cap DOMAIN coords_prev :
       /\ coords_curr[id] # coords_prev[id]
       /\ coords_prev_fallback[id] = coords_prev[id]

\* and with a node in the current index alone
C18_CurrentOnlyWitness ==
  /\ PreprocessDone
  /\ coords_prev = EmptyMap
  /\ input_prev # <<>>
  /\ \E id \in DOMAIN coords_curr : coords_prev_fallback[id] = coords_curr[id]

\* the timestamp of the predecessor parsed to a positive value
PositiveStamp(curr) ==
  /\ HasPredecessor(curr)
  /\ Predecessor(curr).timestamp \in WellFormedTs
  /\ EpochOf(Predecessor(curr).timestamp) > 0

C19_Gap(curr, row) ==
  /\ row.time_gap_prev.k = "num"
  /\ row.time_gap_prev =
       IF PositiveStamp(curr)
         THEN Num(parse_ts(curr.timestamp) - EpochOf(Predecessor(curr).timestamp))
         ELSE Zero
  /\ (~HasPredecessor(curr) \/ Predecessor(curr).timestamp \notin WellFormedTs) =>
       row.time_gap_prev = Zero

\* C19: time_gap_prev is the current timestamp minus the timestamp of the
\* predecessor when a predecessor is found and its timestamp parsed to a
\* positive value; it is 0, not a negative number and not a missing
\* marker, when no predecessor is found or the timestamp of the
\* predecessor is absent or does not parse (and when it parses to 0 or
\* less).
C19_TimeGapNeedsPositiveStamp == EachRow(C19_Gap)

C19_CaseUnparsable(curr, row) ==
  /\ HasPredecessor(curr)
  /\ Predecessor(curr).timestamp = "bad"
  /\ row.last_modified_time = Num(300)
  /\ row.time_gap_prev = Zero

C19_CaseGap(curr, row) ==
  /\ PositiveStamp(curr)
  /\ row.time_gap_prev = Num(200)

C19_CaseNoPredecessor(curr, row) ==
  /\ IsDiffed(curr)
  /\ ~HasPredecessor(curr)
  /\ prev_cache # EmptyMap
  /\ row.last_modified_time = Num(300)
  /\ row.time_gap_prev = Zero

\* a record stamped 300 got its row against a predecessor whose timestamp
\* does not parse
C19_Witness == SomeRow(C19_CaseUnparsable)

\* and others against a predecessor stamped 100 and without a predecessor
C19_GapWitness == SomeRow(C19_CaseGap)

C19_NoPredecessorWitness == SomeRow(C19_CaseNoPredecessor)

\* the positions of a reference list whose reference resolves, in order
RECURSIVE Ascending(_)
Ascending(S) ==
  IF S = {} THEN <<>>
  ELSE LET m == CHOOSE i \in S : \A j \in S : i <= j
       IN <<m>> \o Ascending(S \ {m})

ResolvedAt(refs, cache) == Ascending({i \in 1..Len(refs) : Resolves(refs[i], cache)})

PointAt(refs, cache, i) == cache[CoerceRef(refs[i])]

Distance(a, b) == haversine(a[1], a[2], b[1], b[2])

\* the sum of the distances between the points of the positions q[i] and
\* q[i + 1], over those i for which Joined(q[i], q[i + 1]) holds
ChainLength(refs, cache, q, Joined(_, _)) ==
  SumSeq([i \in 1..(Len(q) - 1) |->
            IF Joined(q[i], q[i + 1])
              THEN Distance(PointAt(refs, cache, q[i]), PointAt(refs, cache, q[i + 1]))
              ELSE 0])

Adjacent(i, j) == j = i + 1

Always(i, j) == TRUE

\* C20 as stated: the length is the sum of the distances between resolved
\* references that follow one another in the list; across a dropped
\* reference there is no term between the resolved neighbours on either
\* side of it.
C20_GapsNotBridged ==
  Returned =>
    ret.length_m =
      ChainLength(arg.node_refs, arg.coord_cache,
                  ResolvedAt(arg.node_refs, arg.coord_cache), Adjacent)

\* C20 amended: the length is the sum of the distances over the
\* consecutive pairs of the sequence of resolved coordinates, in reference
\* order; a dropped reference only shortens that sequence, so that the
\* resolved neighbours on either side of it are consecutive and the
\* distance between them is a term of the sum.
C20_LengthOverResolvedSequence ==
  Returned =>
    ret.length_m =
      ChainLength(arg.node_refs, arg.coord_cache,
                  ResolvedAt(arg.node_refs, arg.coord_cache), Always)

\* the length of a way of three references, the second of which is
\* dropped, is the distance between the first and the third
C20_Witness ==
  /\ Returned
  /\ arg.node_refs = <<"10", "x", "11">>
  /\ ResolvedAt(arg.node_refs, arg.coord_cache) = <<1, 3>>
  /\ ret.length_m = Distance(<<0, 0>>, <<0, 60>>)
  /\ ret.length_m > 0

CurrCentroid(curr) == calculate_way_metrics(curr.node_refs, coords_curr).centroid

C21_Shift(curr, row) ==
  curr.obj_type = "way" =>
    /\ row.centroid_shift =
         IF HasPredecessor(curr) /\ PrevLength(curr) > 0
           THEN Num(Distance(CurrCentroid(curr), PrevCentroid(curr)))
           ELSE Zero
    /\ (HasPredecessor(curr) /\ PrevLength(curr) = 0) => row.centroid_shift = Zero
    /\ ~HasPredecessor(curr) => row.centroid_shift = Zero

\* C21: the centroid_shift of a way is the distance between its centroid
\* and the centroid of its predecessor when a predecessor is found and the
\* length of the predecessor is above 0; it is 0 when no predecessor is
\* found and whenever the length of the predecessor is 0, with fewer than
\* 2 resolved previous coordinates or with resolved previous coordinates
\* that all coincide.
C21_WayShiftNeedsPreviousLength == EachRow(C21_Shift)

C21_CaseCoincide(curr, row) ==
  /\ curr.obj_type = "way"
  /\ HasPredecessor(curr)
  /\ ResolvedCount(Predecessor(curr).node_refs, coords_prev_fallback) = 2
  /\ PrevLength(curr) = 0
  /\ Distance(CurrCentroid(curr), PrevCentroid(curr)) > 0
  /\ row.centroid_shift = Zero

C21_CaseShift(curr, row) ==
  /\ curr.obj_type = "way"
  /\ HasPredecessor(curr)
  /\ PrevLength(curr) > 0
  /\ row.centroid_shift.n > 0

\* a way got its row against a predecessor whose two resolved coordinates
\* coincide, away from the centroid of the way
C21_Witness == SomeRow(C21_CaseCoincide)

\* and another against a predecessor with a length and another centroid
C21_ShiftWitness == SomeRow(C21_CaseShift)

\* C22: the sanitizer leaves every finite number as it was, and replaces
\* by 0 only what is missing, not a number or infinite: a change ratio over
\* the 1e-6 floor, large and finite, is in the table what it was in the
\* row.
C22_FiniteValuesKept ==
  pc = "done" =>
    /\ Len(table) = Len(results)
    /\ \A r \in 1..Len(results) : \A c \in cols :
         /\ IsNumber(results[r][c]) => table[r][c] = results[r][c]
         /\ table[r][c] # results[r][c] =>
              \/ table[r][c] = Zero
              \/ results[r][c].k = "str" /\ results[r][c].s \in NumericStrings

\* a table was written with the length_change_ratio of a way of 111.18 m
\* whose predecessor has length 0: 111.18 / 1e-6
C22_Witness ==
  /\ pc = "done"
  /\ \E r \in 1..Len(results) :
       /\ results[r].length_change_ratio = [k |-> "num", n |-> 111180, d |-> 1, e |-> 1, s |-> ""]
       /\ table[r].length_change_ratio = results[r].length_change_ratio

Bit(cell) == cell \in {Zero, Num(1)}

Flag(b) == IF b THEN Num(1) ELSE Zero

C23_Exclusive(curr, row) ==
  /\ Bit(row.is_create) /\ Bit(row.is_modify) /\ Bit(row.is_delete)
  /\ row.is_create.n + row.is_modify.n + row.is_delete.n <= 1

C23_Literal(curr, row) ==
  /\ C23_Exclusive(curr, row)
  /\ row.is_create = Flag(curr.action = "create")
  /\ row.is_modify = Flag(curr.action = "modify")
  /\ row.is_delete = Flag(curr.action = "delete")

\* C23 as stated: the three indicators are 0 or 1, at most one of them is
\* 1, exactly the one of the action when the action is create, modify or
\* delete, and all three are 0 for every other action and for an absent
\* one.
C23_IndicatorsOfWrittenAction == EachRow(C23_Literal)

\* the spellings of the three actions in the streams of the model
Spellings(name) ==
  CASE name = "create" -> {"create", "Create"}
    [] name = "modify" -> {"modify", "MODIFY"}
    [] OTHER -> {name}

C23_CaseInsensitive(curr, row) ==
  /\ C23_Exclusive(curr, row)
  /\ row.is_create = Flag(curr.action \in Spellings("create"))
  /\ row.is_modify = Flag(curr.action \in Spellings("modify"))
  /\ row.is_delete = Flag(curr.action \in Spellings("delete"))

\* C23 amended: the three indicators are 0 or 1 and at most one of them is
\* 1; the action is compared in lower case, so that exactly one is 1 when
\* the action is create, modify or delete in any capitalisation, and all
\* three are 0 for every other action and for an absent one.
C23_IndicatorsOfLowercasedAction == EachRow(C23_CaseInsensitive)

C23_CaseUpper(curr, row) ==
  /\ curr.action = "MODIFY"
  /\ row.is_modify = Num(1)
  /\ row.is_create = Zero
  /\ row.is_delete = Zero

C23_CaseAbsent(curr, row) ==
  /\ curr.action = ""
  /\ row.is_modify = Zero /\ row.is_create = Zero /\ row.is_delete = Zero

\* a record with the action MODIFY got its row, and so did a record
\* without an action
C23_Witness == SomeRow(C23_CaseUpper) /\ SomeRow(C23_CaseAbsent)

Components(a, b) == {a.lat, a.lon, b.lat, b.lon}

\* C24: the distance is 0, and nothing is raised, when one of the four
\* components is absent, whichever it is; a failure of the arithmetic
\* (here on a component that is not a number) gives 0 as well and does not
\* reach the caller.  Both variants of _haversine do so.
C24_DistanceNeverRaises ==
  Returned =>
    /\ ret # Raised
    /\ None \in Components(arg.a, arg.b) => ret = 0
    /\ NotNumber \in Components(arg.a, arg.b) => ret = 0
    /\ Components(arg.a, arg.b) \cap {None, NotNumber} = {} =>
         ret = Distance(<<arg.a.lat, arg.a.lon>>, <<arg.b.lat, arg.b.lon>>)

\* the variant that guards the latitudes only has returned 0 for a pair
\* with both latitudes and without one longitude
C24_Witness ==
  /\ pc = "returned"
  /\ arg.a = [lat |-> 0, lon |-> None]
  /\ arg.b = [lat |-> 60, lon |-> 60]
  /\ ret = 0
  /\ ret = scripts_haversine(arg.a.lat, arg.a.lon, arg.b.lat, arg.b.lon)

PredecessorTagCount(curr) == Cardinality(DOMAIN PredecessorTags(curr))

SharedKeys(curr) == DOMAIN curr.tags \cap DOMAIN PredecessorTags(curr)

C26_Consistent(curr, row) ==
  /\ row.tag_count.n - row.tag_add_count.n =
       PredecessorTagCount(curr) - row.tag_remove_count.n
  /\ row.tag_count.n - row.tag_add_count.n = Cardinality(SharedKeys(curr))
  /\ 0 <= row.tag_modify_count.n
  /\ row.tag_modify_count.n <= row.tag_count.n - row.tag_add_count.n
  /\ ~HasPredecessor(curr) => PredecessorTagCount(curr) = 0

\* C26: in every row tag_count - tag_add_count and (tag count of the
\* predecessor) - tag_remove_count are equal, both being the number of
\* keys the two tag sets share, and tag_modify_count lies between 0 and
\* that number; without a predecessor the tag count of the predecessor is
\* 0.
C26_TagCountsConsistent == EachRow(C26_Consistent)

C26_Case(curr, row) ==
  /\ HasPredecessor(curr)
  /\ Cardinality(SharedKeys(curr)) = 1
  /\ row.tag_count = Num(2)
  /\ row.tag_add_count = Num(1)
  /\ row.tag_modify_count = Num(1)

C26_CaseRemoved(curr, row) ==
  /\ HasPredecessor(curr)
  /\ row.tag_count = Zero
  /\ row.tag_remove_count = Num(1)

\* a record with two tags got its row against a predecessor with which it
\* shares one key, under another value
C26_Witness == SomeRow(C26_Case)

\* and a record without tags against a predecessor with one
C26_RemovedWitness == SomeRow(C26_CaseRemoved)

C27_Counted(curr, row) ==
  /\ row.changeset_size.n >= 1
  /\ row.user_edit_count.n >= 1
  /\ row.user_object_diversity.n >= 1
  /\ row.user_object_diversity.n <= row.user_edit_count.n

\* C27: every row is the row of a record the scan of the current stream
\* counted: its changeset_size and its user_edit_count are at least 1 and
\* its user_object_diversity lies between 1 and its user_edit_count.
C27_EveryRowCounted == EachRow(C27_Counted)

C27_CaseSkipped(curr, row) ==
  /\ GeomRaises(curr)
  /\ row.changeset_size = Zero
  /\ row.user_edit_count = Zero
  /\ row.user_object_diversity = Zero

\* a node whose geom is a string, which the scan skipped, got a row that
\* no statistic counts
C27_SkippedWitness == SomeRow(C27_CaseSkipped)

\* a step of a crawler sent a request to the API
Requested == Len(local'.requests) = Len(local.requests) + 1

\* the request of the step, with its response
Request == local'.requests[Len(local'.requests)]

RecordedChangesets == load_processed_changesets(processed_changesets)

RecordedVersions ==
  load_processed_versions(processed_versions)
    \cup load_existing_keys_from_versions_file(prev_exists, input_prev)

\* the item a loop is at
AtChangeset == local.changeset_ids[pos]

AtKey ==
  make_key(queue_file.lines[pos].obj_type, queue_file.lines[pos].obj_id,
           queue_file.lines[pos].prev_version)

InChangesets == pc = "changesets" /\ pos <= Len(local.changeset_ids)

InQueue == pc = "queue" /\ pos <= Len(queue_file.lines)

C25_Changesets ==
  /\ (pc = "changesets" /\ processed_changesets' # processed_changesets) =>
       /\ InChangesets
       /\ Requested
       /\ Request = [item |-> AtChangeset, response |-> "ok"]
       /\ input_curr' = input_curr \o ChangesetObjects(AtChangeset)
       /\ processed_changesets' =
            File(Append(processed_changesets.lines, AtChangeset))
  /\ (pc = "changesets" /\ Requested /\ Request.response # "ok") =>
       /\ RecordedChangesets' = RecordedChangesets
       /\ local'.processed = local.processed
       /\ AtChangeset \notin RecordedChangesets'
  /\ (InChangesets /\ AtChangeset \notin RecordedChangesets) =>
       Requested /\ Request.item = AtChangeset

C25_Queue ==
  /\ (pc = "queue" /\ processed_versions' # processed_versions) =>
       /\ InQueue
       /\ Requested
       /\ Request = [item |-> AtKey, response |-> "ok"]
       /\ input_prev' =
            Append(input_prev, VersionRecord(AtKey[1], AtKey[2], AtKey[3]))
       /\ processed_versions' = File(Append(processed_versions.lines, AtKey))
  /\ (pc = "queue" /\ Requested /\ Request.response # "ok") =>
       /\ RecordedVersions' = RecordedVersions
       /\ local'.processed = local.processed
       /\ AtKey \notin RecordedVersions'
  /\ (InQueue /\ AtKey \notin RecordedVersions) =>
       Requested /\ Request.item = AtKey

\* C25: in both crawlers a step writes an item to the processed file only
\* when the request of that very step was answered with the item and the
\* step appended its output; a step whose request failed, or whose answer
\* did not parse, records nothing, in the file or in memory; and a step at
\* an item no file records sends a request, so a run that does not
\* overwrite attempts the failed item again.
C25_ProcessedOnlyAfterSuccess == [][C25_Changesets /\ C25_Queue]_vars

\* changeset 5 stood twice in the list: its first download failed, its
\* second succeeded, and the changeset is recorded with its objects saved
C25_Witness ==
  /\ pc = "changesets"
  /\ local.requests = <<[item |-> 5, response |-> "failed"],
                        [item |-> 5, response |-> "ok"]>>
  /\ processed_changesets = File(<<5>>)
  /\ input_curr = ChangesetObjects(5)

\* in a later run over the queue the answer for node 1 version 1 held no
\* node element, the key stayed unrecorded, and relation 1 version 1 was
\* recorded
C25_QueueWitness ==
  /\ pc = "queue"
  /\ local.runs > 1
  /\ local.requests =
       <<[item |-> <<"node", 1, 1>>, response |-> "no_element"],
         [item |-> <<"relation", 1, 1>>, response |-> "ok"]>>
  /\ processed_versions = File(<<(<<"relation", 1, 1>>)>>)

\* the key under which the extractor looks a queue row up
RowKey(row) == <<row.obj_type, Num(row.obj_id), Num(row.prev_version)>>

\* the keys of the queue generate_fetch_queue writes for objects.jsonl
QueuedKeys ==
  LET queue == generate_fetch_queue(curr_exists, input_curr, NoFile)
  IN {RowKey(queue.lines[i]) : i \in DOMAIN queue.lines}

\* C28: for every record of objects.jsonl for which extract_row looks a
\* predecessor up (its action is not create and its version is above 1),
\* the queue generate_fetch_queue writes holds the key (type, id,
\* version - 1).
C28_EveryLookupQueued ==
  \A i \in DOMAIN input_curr :
    ConsultsPrev(input_curr[i]) => PredKey(input_curr[i]) \in QueuedKeys

\* a run ended and wrote the queue from an objects.jsonl that holds a
\* deleted way of version 3, and no row of the queue asks for its version 2
C28_Witness ==
  /\ pc = "idle"
  /\ queue_file = generate_fetch_queue(curr_exists, input_curr, NoFile)
  /\ queue_file.exists
  /\ \E i \in DOMAIN input_curr :
       /\ input_curr[i].action = "delete"
       /\ ConsultsPrev(input_curr[i])
       /\ PredKey(input_curr[i]) = <<"way", Num(1), Num(2)>>
       /\ PredKey(input_curr[i]) \notin QueuedKeys

\* the lines of objects.jsonl that came from one changeset
ObjectsOf(cs) == SelectSeq(input_curr, LAMBDA d : d.changeset_id = Num(cs))

\* C29: whatever runs of process_changesets came before, objects.jsonl
\* holds the objects of a changeset once or not at all, and no two rows of
\* the fetch queue have the same (type, id, prev_version).
C29_AppendedAtMostOnce ==
  /\ \A cs \in Changesets : ObjectsOf(cs) \in {<<>>, ChangesetObjects(cs)}
  /\ \A i, j \in DOMAIN queue_file.lines :
       RowKey(queue_file.lines[i]) = RowKey(queue_file.lines[j]) => i = j

\* a third run was given a list that names changeset 5 twice, after runs
\* that saved 5 and 6; both changesets modify node 1 at version 2, and the
\* queue asks for its version 1 once
C29_Witness ==
  /\ pc = "idle"
  /\ local.runs = 3
  /\ ~local.overwrite
  /\ local.changeset_ids = <<5, 5>>
  /\ local.requests = <<>>
  /\ input_curr = ChangesetObjects(6) \o ChangesetObjects(5)
  /\ Len(queue_file.lines) = 2

\* the keys of the records of object_versions.jsonl, line by line
VersionKeyAt(i) ==
  <<input_prev[i].obj_type, input_prev[i].obj_id, input_prev[i].version>>

C30_NoTwoRecordsOfAKey ==
  \A i, j \in DOMAIN input_prev : VersionKeyAt(i) = VersionKeyAt(j) => i = j

C30_Skip ==
  (InQueue /\ AtKey \in RecordedVersions) =>
    /\ ~Requested
    /\ UNCHANGED <<input_prev, prev_exists, processed_versions, local>>

C30_Overwrite ==
  (pc = "idle" /\ pc' = "queue" /\ local'.overwrite) =>
    /\ input_prev' = <<>>
    /\ ~prev_exists'
    /\ processed_versions' = NoFile
    /\ local'.processed = {}
    /\ local'.requests = <<>>

\* C30: a row of the queue whose key is in object_versions.jsonl or in
\* processed_versions.txt is passed without a request and without a write,
\* object_versions.jsonl never holds two records of one key, and a run
\* with overwrite enters the loop over the queue with both files gone.
C30_QueueIdempotent ==
  /\ []C30_NoTwoRecordsOfAKey
  /\ [][C30_Skip /\ C30_Overwrite]_vars

\* a run passed the row of node 1 version 1, which stood in
\* object_versions.jsonl and in no processed file, without a request
C30_Witness ==
  /\ pc = "queue"
  /\ ~local.overwrite
  /\ pos = 2
  /\ make_key(queue_file.lines[1].obj_type, queue_file.lines[1].obj_id,
              queue_file.lines[1].prev_version) = <<"node", 1, 1>>
  /\ local.requests = <<>>
  /\ input_prev = <<VersionRecord("node", 1, 1)>>
  /\ processed_versions = NoFile

\* a run with overwrite fetched the version again that the file held
\* before the run
C30_OverwriteWitness ==
  /\ pc = "queue"
  /\ local.overwrite
  /\ local.runs = 3
  /\ local.requests = <<[item |-> <<"node", 1, 1>>, response |-> "ok"]>>
  /\ input_prev = <<VersionRecord("node", 1, 1)>>
  /\ processed_versions = File(<<(<<"node", 1, 1>>)>>)

=============================================================================
